---- MODULE Spec2Model ----
(***************************************************************************)
(* Model of the ComicVine synchronisation and caching engine of            *)
(* weeklypulls-data: weeklypulls/apps/comicvine/services.py                *)
(* (ComicVineService) over the cache tables of                             *)
(* weeklypulls/apps/comicvine/models.py, and of the week endpoint that     *)
(* drives range priming, WeeksViewSet.retrieve of                          *)
(* weeklypulls/apps/pulls/views.py.                                        *)
(*                                                                         *)
(* Time is counted in ticks of 1/TicksPerHour hour.  A missing optional    *)
(* value (Python None / SQL NULL) of an integer or timestamp field is the  *)
(* integer None; a missing string is the string NoneStr.                   *)
(***************************************************************************)
EXTENDS Integers, Sequences, FiniteSets, TLC

\* ------------------------------------------------------------------------
\* Bounds of the model
\* ------------------------------------------------------------------------
TicksPerHour == 2
MaxNow == 6
MaxInvocations == 2
NumDays == 3

\* the week requests of a behaviour whose priming call raises stop once the
\* row's api_fetch_failure_count has reached MaxFailures
MaxFailures == 2

\* the single ticks of the clock in front of the week endpoint
MaxWeekTicks == 1

\* The adapter's page size is 500 records (offset = (page - 1) * 500); the
\* model pages PageSize records at a time.
PageSize == 2

\* settings.COMICVINE_CACHE_EXPIRE_HOURS, a deployment setting read by
\* ComicVineService.__init__; the model runs with a short TTL.
CacheExpireHours == 2

\* settings.COMICVINE_PRIME_BUDGET_SECONDS, a deployment setting read by
\* prime_issues_for_date_range; the model runs with a short budget.
BudgetSeconds == 1

\* ------------------------------------------------------------------------
\* Values
\* ------------------------------------------------------------------------
None == -1
NoneStr == "None"

VolumeIds == {1, 2}
\* the volumes callers ask get_volume for; volume 2 is known from issue
\* listings only
RequestedVolumeIds == {1}
PublisherIds == {10, 11}

BackoffHours == 1
EnsureVolumeTTLDays == 30
IssueTTLDays == 30
MaxPagesPerDay == 3
MaxPagesPerVolume == 3

Dates == 0 .. NumDays - 1
LastDate == NumDays - 1

\* arguments of prime_issues_for_date_range
PrimeStartDates == {0}
PrimeEndDates == {LastDate}
PrimeStartPages == 0 .. 3
PrimeResumeDates == {None} \cup Dates

Hours(h) == h * TicksPerHour
Days(d) == d * 24 * TicksPerHour
\* timedelta(minutes=m), timedelta(seconds=s): a duration shorter than one
\* tick is no tick
Minutes(m) == (m * TicksPerHour) \div 60
Seconds(s) == (s * TicksPerHour) \div 3600

\* the TTLs WeeksViewSet.retrieve gives a week row
WeekCompleteTTLDays == 7
WeekRetryTTLSeconds == 60
WeekFailureTTLMinutes == 5

\* the "limit" query parameter of the week endpoint: 1000 by default and
\* at most 2000, twice and four times the adapter's page size
DefaultLimit == 2 * PageSize
MaxLimit == 4 * PageSize
WeekLimits == {0, DefaultLimit}

\* f"Volume {volume_id}"
SyntheticVolumeName(volume_id) == "Volume " \o ToString(volume_id)

\* f"Publisher {pub_id}"
SyntheticPublisherName(pub_id) == "Publisher " \o ToString(pub_id)

\* Python truthiness of an optional string / an optional integer
TruthyStr(s) == s /= NoneStr /\ s /= ""
TruthyInt(i) == i /= None /\ i /= 0

\* ------------------------------------------------------------------------
\* The remote source adapter: what self.cv.get_volume may answer
\* ------------------------------------------------------------------------
NoPublisherPayload == [id |-> None, name |-> NoneStr]

VolumePayloads ==
    { [name |-> "Saga", start_year |-> 2012, issue_count |-> 3,
       publisher |-> [id |-> 10, name |-> "Image"]],
      [name |-> "Saga", start_year |-> 2012, issue_count |-> 3,
       publisher |-> [id |-> 10, name |-> NoneStr]],
      [name |-> NoneStr, start_year |-> None, issue_count |-> None,
       publisher |-> [id |-> 11, name |-> "Boom"]],
      [name |-> "Saga", start_year |-> 2012, issue_count |-> 3,
       publisher |-> NoPublisherPayload] }

AdapterOutcomes == {"ok", "service_error", "unexpected_error"}

\* ------------------------------------------------------------------------
\* State
\* ------------------------------------------------------------------------
VARIABLES
    cv,          \* TRUE iff the API key is configured (self.cv is not None)
    now,         \* timezone.now(), in ticks
    volumes,     \* table comicvine_volumes: cv_id -> row
    publishers,  \* table comicvine_publishers: cv_id -> name
    issues,      \* table comicvine_issues: cv_id -> row
    catalog,     \* the upstream issues the adapter answers from
    prime,       \* the running prime_issues_for_date_range call: its
                 \* position, its locals and the requests it has made
    summary,     \* what the last prime_issues_for_date_range call returned
    ret,         \* the last service call: its arguments, the row it found,
                 \* what it returned, its remote calls and its writes
    invocations, \* number of service calls made so far
    weeks,       \* table comicvine_weeks: week_start -> row
    wreq,        \* the running or the last week request: its parameters,
                 \* the row it found, what priming did and what it served
    errors,      \* history: the requests the adapter failed in the running
                 \* or the last priming call, where a specification logs them
    parked,      \* the registers (prime, summary, wreq) of the week request
                 \* that runs concurrently with the one in prime/summary/wreq
    asked,       \* history: the (date, page) requests made by any week
                 \* request, where a specification logs them
    run,         \* the running or the last command or request of the pulls app
    db           \* the tables of the pulls app

vars == <<cv, now, volumes, publishers, issues, catalog, prime, summary, ret,
          invocations, weeks, wreq, errors, parked, asked, run, db>>

\* the state outside the ComicVine service and the week endpoint
app == <<parked, asked, run, db>>

\* no concurrent week request
NoParked == <<>>

\* no command or request of the pulls app has run
IdleRun == [op |-> "idle", pc |-> "idle"]

\* the empty tables of the pulls app: pull lists, Pulls and MUPulls by id
EmptyDb == [pull_lists |-> <<>>, pulls |-> <<>>, mupulls |-> <<>>]

\* no adapter failure written down
NoErrors == [failed |-> <<>>, chain_failed |-> FALSE]

\* a service call that counts towards the MaxInvocations calls of a
\* behaviour of Spec
Invoke ==
    /\ invocations < MaxInvocations
    /\ invocations' = invocations + 1

\* ------------------------------------------------------------------------
\* ComicVineCacheModel / ComicVineVolume
\* ------------------------------------------------------------------------
\* ComicVineVolume(cv_id=...): a new, unsaved instance with the field defaults
NewVolume(volume_id, name) ==
    [cv_id |-> volume_id, name |-> name, start_year |-> None,
     count_of_issues |-> 0, publisher |-> None,
     last_updated |-> None, cache_expires |-> None,
     api_fetch_failed |-> FALSE, api_fetch_failure_count |-> 0,
     api_last_failure |-> None]

NoRecord == NewVolume(None, NoneStr)

\* a record counted as expired from cache_expires on
is_cache_expired_inclusive(rec, t) == t >= rec.cache_expires

is_cache_expired(rec, t) == t > rec.cache_expires

\* a failure mark that also restarts the TTL
mark_api_failure_resetting(rec, t) ==
    [rec EXCEPT !.api_fetch_failed = TRUE,
                !.api_fetch_failure_count = @ + 1,
                !.api_last_failure = t,
                !.cache_expires = t]

\* a failure mark that does not count the failure
mark_api_failure_uncounted(rec, t) ==
    [rec EXCEPT !.api_fetch_failed = TRUE,
                !.api_last_failure = t]

mark_api_failure(rec, t) ==
    [rec EXCEPT !.api_fetch_failed = TRUE,
                !.api_fetch_failure_count = @ + 1,
                !.api_last_failure = t]

reset_api_failure(rec) ==
    [rec EXCEPT !.api_fetch_failed = FALSE,
                !.api_fetch_failure_count = 0,
                !.api_last_failure = None]

\* a volumes table whose publisher column is nullable
CanSaveVolume_nullable(rec, pubs) ==
    /\ rec.cache_expires /= None
    /\ rec.publisher /= None => rec.publisher \in DOMAIN pubs

\* The NOT NULL columns of comicvine_volumes and the publisher foreign key:
\* save() of a row violating them raises IntegrityError and writes nothing.
CanSaveVolume(rec, pubs) ==
    /\ rec.cache_expires /= None
    /\ rec.publisher /= None
    /\ rec.publisher \in DOMAIN pubs

\* Model.save(): last_updated is auto_now
SavedVolume(rec, t) == [rec EXCEPT !.last_updated = t]

PutRow(table, key, row) ==
    [k \in DOMAIN table \cup {key} |-> IF k = key THEN row ELSE table[k]]

\* ComicVinePublisher.objects.get_or_create(cv_id, defaults={name}) followed
\* by the rename when the upstream name is set and differs
UpsertPublisher(pubs, pub_id, pub_name) ==
    LET created == IF pub_id \in DOMAIN pubs
                   THEN pubs
                   ELSE PutRow(pubs, pub_id,
                               IF TruthyStr(pub_name) THEN pub_name
                               ELSE SyntheticPublisherName(pub_id))
    IN IF TruthyStr(pub_name) /\ created[pub_id] /= pub_name
       THEN [created EXCEPT ![pub_id] = pub_name]
       ELSE created

\* ------------------------------------------------------------------------
\* ComicVineService.get_volume
\* ------------------------------------------------------------------------
\* the cached-and-fresh test with the negation of the expiry test lost
ServesCached_expired(rec, force_refresh, t) ==
    /\ ~force_refresh
    /\ is_cache_expired(rec, t)
    /\ ~rec.api_fetch_failed

\* the cached-and-fresh test of get_volume
ServesCached(rec, force_refresh, t) ==
    /\ ~force_refresh
    /\ ~is_cache_expired(rec, t)
    /\ ~rec.api_fetch_failed

\* a backoff window one tick short of the hour
InBackoff_short(rec, t) ==
    /\ rec.api_fetch_failed
    /\ LET time_since_failure ==
               t - (IF rec.api_last_failure /= None
                    THEN rec.api_last_failure ELSE t)
       IN time_since_failure < Hours(BackoffHours) - 1

\* "Don't retry failed API calls too frequently"
InBackoff(rec, t) ==
    /\ rec.api_fetch_failed
    /\ LET time_since_failure ==
               t - (IF rec.api_last_failure /= None
                    THEN rec.api_last_failure ELSE t)
       IN time_since_failure < Hours(BackoffHours)

\* the fields get_volume copies from a successful answer
ApplyVolumePayload(rec, volume_id, payload, t) ==
    reset_api_failure(
        [rec EXCEPT
            !.name = IF TruthyStr(payload.name) THEN payload.name
                     ELSE SyntheticVolumeName(volume_id),
            !.start_year = payload.start_year,
            !.count_of_issues = IF TruthyInt(payload.issue_count)
                                THEN payload.issue_count ELSE 0,
            !.publisher = payload.publisher.id,
            !.cache_expires = t + Hours(CacheExpireHours)])

\* the record of a service call kept in ret
Result(op, id, force, existed, before, returned, record, calls, writes, t) ==
    [op |-> op, volume_id |-> id, force_refresh |-> force,
     existed |-> existed, before |-> before, returned |-> returned,
     record |-> record, calls |-> calls, writes |-> writes, at |-> t,
     path |-> "none", outcome |-> "none", payload_publisher |-> None,
     items |-> <<>>, again |-> FALSE]

\* a fetch branch that asks once more after a failed request
RemoteVolumeCalls_retry(outcome) == IF outcome = "ok" THEN 1 ELSE 2

\* the number of self.cv.get_volume requests of one pass through the fetch
\* branch: the call is made once and its failure is not retried
RemoteVolumeCalls(outcome) == 1

\* the two except branches of get_volume: mark the failure and save; a save
\* that raises leaves the handler
MarkFailedAndSave(vols, pubs, volume_id, inmemory, t) ==
    LET marked == mark_api_failure(inmemory, t)
    IN IF CanSaveVolume(marked, pubs)
       THEN [volumes |-> PutRow(vols, volume_id, SavedVolume(marked, t)),
             publishers |-> pubs, returned |-> "record",
             record |-> SavedVolume(marked, t), saved |-> 1]
       ELSE [volumes |-> vols, publishers |-> pubs, returned |-> "raised",
             record |-> NoRecord, saved |-> 0]

\* the fetch branch of get_volume: the remote call and what follows it
FetchVolume(vols, pubs, volume_id, outcome, payload, t) ==
    LET existed == volume_id \in DOMAIN vols
    IN IF outcome = "ok"
       THEN LET start == IF existed THEN vols[volume_id]
                         ELSE NewVolume(volume_id, "")
                pubs2 == IF payload.publisher.id /= None
                         THEN UpsertPublisher(pubs, payload.publisher.id,
                                              payload.publisher.name)
                         ELSE pubs
                updated == ApplyVolumePayload(start, volume_id, payload, t)
            IN IF CanSaveVolume(updated, pubs2)
               THEN [volumes |-> PutRow(vols, volume_id,
                                        SavedVolume(updated, t)),
                     publishers |-> pubs2, returned |-> "record",
                     record |-> SavedVolume(updated, t), saved |-> 1]
               ELSE \* IntegrityError, caught by "except Exception"
                    MarkFailedAndSave(vols, pubs2, volume_id, updated, t)
       ELSE MarkFailedAndSave(
                vols, pubs, volume_id,
                IF existed THEN vols[volume_id]
                ELSE NewVolume(volume_id, SyntheticVolumeName(volume_id)),
                t)

\* a lookup that serves a fresh cached record before it tests the client
GetVolume_cachefirst(volume_id, force_refresh, outcome, payload) ==
    LET existed == volume_id \in DOMAIN volumes
        before == IF existed THEN volumes[volume_id] ELSE NoRecord
        res(path, returned, record, calls, writes) ==
            [Result("get_volume", volume_id, force_refresh, existed, before,
                    returned, record, calls, writes, now)
             EXCEPT !.path = path]
    IN
    /\ prime.pc = "idle"
    /\ UNCHANGED <<cv, now, issues, catalog, prime, summary>>
    /\ IF existed /\ ServesCached(before, force_refresh, now)
       THEN /\ UNCHANGED <<volumes, publishers>>
            /\ ret' = res("fresh", "record", before, 0, 0)
       ELSE IF ~cv
       THEN /\ UNCHANGED <<volumes, publishers>>
            /\ ret' = res("unconfigured", "none", NoRecord, 0, 0)
       ELSE IF existed /\ InBackoff(before, now)
       THEN /\ UNCHANGED <<volumes, publishers>>
            /\ ret' = res("backoff", "record", before, 0, 0)
       ELSE LET f == FetchVolume(volumes, publishers, volume_id, outcome,
                                 payload, now)
            IN /\ volumes' = f.volumes
               /\ publishers' = f.publishers
               /\ ret' = [res("fetch", f.returned, f.record,
                              RemoteVolumeCalls(outcome),
                              f.saved + (IF f.publishers /= publishers
                                         THEN 1 ELSE 0))
                          EXCEPT !.outcome = outcome,
                                 !.payload_publisher =
                                     IF outcome = "ok"
                                     THEN payload.publisher.id ELSE None]

GetVolume(volume_id, force_refresh, outcome, payload) ==
    LET existed == volume_id \in DOMAIN volumes
        before == IF existed THEN volumes[volume_id] ELSE NoRecord
        res(path, returned, record, calls, writes) ==
            [Result("get_volume", volume_id, force_refresh, existed, before,
                    returned, record, calls, writes, now)
             EXCEPT !.path = path]
    IN
    /\ prime.pc = "idle"
    /\ UNCHANGED <<cv, now, issues, catalog, prime, summary>>
    /\ IF ~cv
       THEN /\ UNCHANGED <<volumes, publishers>>
            /\ ret' = res("unconfigured", "none", NoRecord, 0, 0)
       ELSE IF existed /\ ServesCached(before, force_refresh, now)
       THEN /\ UNCHANGED <<volumes, publishers>>
            /\ ret' = res("fresh", "record", before, 0, 0)
       ELSE IF existed /\ InBackoff(before, now)
       THEN /\ UNCHANGED <<volumes, publishers>>
            /\ ret' = res("backoff", "record", before, 0, 0)
       ELSE LET f == FetchVolume(volumes, publishers, volume_id, outcome,
                                 payload, now)
            IN /\ volumes' = f.volumes
               /\ publishers' = f.publishers
               /\ ret' = [res("fetch", f.returned, f.record,
                              RemoteVolumeCalls(outcome),
                              f.saved + (IF f.publishers /= publishers
                                         THEN 1 ELSE 0))
                          EXCEPT !.outcome = outcome,
                                 !.payload_publisher =
                                     IF outcome = "ok"
                                     THEN payload.publisher.id ELSE None]

\* ------------------------------------------------------------------------
\* The remote source adapter: what self.cv.list_issues answers
\* ------------------------------------------------------------------------
\* the image object of an upstream issue: one URL per variant, under the
\* attribute names _build_issue_defaults reads; present is FALSE for an
\* issue without an image object
NoImage ==
    [present |-> FALSE, medium_url |-> NoneStr, super_url |-> NoneStr,
     screen_url |-> NoneStr, small_url |-> NoneStr,
     original_url |-> NoneStr, thumbnail |-> NoneStr, tiny_url |-> NoneStr,
     icon_url |-> NoneStr]

\* an upstream issue; a date comes as a date object ("date"), a datetime
\* ("datetime"), a text that parses ("text") or one that does not ("junk")
IssuePayloadOf(id, vol_id, pub, store_date, store_form, cover_date, cover_form, image) ==
    [id |-> id, name |-> NoneStr, number |-> ToString(id),
     volume |-> [id |-> vol_id, name |-> NoneStr, publisher |-> pub],
     store_date |-> store_date, store_form |-> store_form,
     cover_date |-> cover_date, cover_form |-> cover_form,
     image |-> image]

\* an upstream issue with date objects and no image
IssuePayload(id, vol_id, pub, store_date, cover_date) ==
    IssuePayloadOf(id, vol_id, pub, store_date, "date", cover_date, "date",
                   NoImage)

\* Upstream catalogues, each sorted by store date.
\* A: more than one page on date 0 (volume 1, published by 10), nothing on
\*    date 1, one issue on date 2 whose volume carries no publisher.
CatalogA ==
    [k \in 1 .. PageSize + 1 |->
        IssuePayload(k, 1, [id |-> 10, name |-> "Image"], 0, 0)]
    \o << IssuePayload(20 + 1, 2, NoPublisherPayload, 2, None) >>

\* B: exactly one full page on date 0 whose first issue's volume carries no
\*    publisher and whose other issues belong to volume 2 (published by 11),
\*    one issue on date 1.
CatalogB ==
    [k \in 1 .. PageSize |->
        IF k = 1 THEN IssuePayload(k, 1, NoPublisherPayload, 0, None)
        ELSE IssuePayload(k, 2, [id |-> 11, name |-> NoneStr], 0, 1)]
    \o << IssuePayload(10 + 1, 1, [id |-> 10, name |-> "Image"], 1, 1) >>

Catalogs == {CatalogA, CatalogB}

\* C: one issue more than MaxPagesPerDay full pages on date 1 (volume 1,
\*    published by 10), nothing on the other dates.
CatalogC ==
    [k \in 1 .. MaxPagesPerDay * PageSize + 1 |->
        IssuePayload(k, 1, [id |-> 10, name |-> "Image"], 1, 1)]

PrimeCatalogs == Catalogs \cup {CatalogC}

ImageOf(medium, super, screen, small, original, thumbnail, tiny, icon) ==
    [present |-> TRUE, medium_url |-> medium, super_url |-> super,
     screen_url |-> screen, small_url |-> small, original_url |-> original,
     thumbnail |-> thumbnail, tiny_url |-> tiny, icon_url |-> icon]

\* D: issues of volume 1 (published by 10) with every combination of a
\*    present, missing or unreadable store date and cover date, and with
\*    image objects that have different variants populated.
CatalogD ==
    LET pub == [id |-> 10, name |-> "Image"]
    IN << IssuePayloadOf(1, 1, pub, None, "date", 1, "date",
                         ImageOf(NoneStr, "super", NoneStr, NoneStr, NoneStr,
                                 NoneStr, NoneStr, "icon")),
          IssuePayloadOf(2, 1, pub, None, "date", None, "date", NoImage),
          IssuePayloadOf(3, 1, pub, 0, "date", 2, "text",
                         ImageOf("medium", "super", "screen", "small",
                                 "original", "thumbnail", "tiny", "icon")),
          IssuePayloadOf(4, 1, pub, 1, "datetime", 0, "date",
                         ImageOf(NoneStr, "super", "screen", NoneStr,
                                 NoneStr, NoneStr, NoneStr, NoneStr)),
          IssuePayloadOf(5, 1, pub, 2, "text", None, "date",
                         ImageOf("", NoneStr, NoneStr, "small", "original",
                                 NoneStr, NoneStr, NoneStr)),
          IssuePayloadOf(6, 1, pub, 2, "junk", 1, "datetime",
                         ImageOf(NoneStr, NoneStr, NoneStr, NoneStr, NoneStr,
                                 NoneStr, "tiny", "")),
          IssuePayloadOf(7, 1, pub, 2, "date", 1, "junk",
                         ImageOf(NoneStr, NoneStr, NoneStr, NoneStr, NoneStr,
                                 NoneStr, NoneStr, "")) >>

Min(a, b) == IF a < b THEN a ELSE b
Max(a, b) == IF a > b THEN a ELSE b

\* one page of a filtered, sorted listing: offset (page - 1) * page size
PageOf(listing, page) ==
    SubSeq(listing, (page - 1) * PageSize + 1,
           Min(Len(listing), page * PageSize))

\* list_issues(filter = store_date:<date>, sort = store_date:asc, offset)
ListIssuesByDate(cat, date, page) ==
    PageOf(SelectSeq(cat, LAMBDA i : i.store_date = date), page)

\* list_issues(filter = volume:<id>, sort = store_date:asc, offset)
ListIssuesByVolume(cat, volume_id, page) ==
    PageOf(SelectSeq(cat, LAMBDA i : i.volume.id = volume_id), page)

\* ------------------------------------------------------------------------
\* Internal helpers of ComicVineService
\* ------------------------------------------------------------------------
\* _parse_date: None for a missing value and for one that does not parse,
\* else the day of the date, datetime or text
ParseDate(raw, form) ==
    IF raw = None THEN None
    ELSE IF form = "junk" THEN None
    ELSE raw

\* _get_img(img, attr)
GetImg(img, attr) == IF img.present THEN img[attr] ELSE NoneStr

\* Python's "a or b" on optional strings
StrOr(a, b) == IF TruthyStr(a) THEN a ELSE b

\* a chain that prefers the screen variant to the super variant
BestMediumImage_screenfirst(img) ==
    StrOr(GetImg(img, "medium_url"),
    StrOr(GetImg(img, "screen_url"),
    StrOr(GetImg(img, "super_url"),
    StrOr(GetImg(img, "small_url"),
    StrOr(GetImg(img, "original_url"),
    StrOr(GetImg(img, "thumbnail"),
    StrOr(GetImg(img, "tiny_url"), GetImg(img, "icon_url"))))))))

\* "image_medium_url": medium_url or super_url or screen_url or small_url
\* or original_url or thumbnail or tiny_url or icon_url
BestMediumImage(img) ==
    StrOr(GetImg(img, "medium_url"),
    StrOr(GetImg(img, "super_url"),
    StrOr(GetImg(img, "screen_url"),
    StrOr(GetImg(img, "small_url"),
    StrOr(GetImg(img, "original_url"),
    StrOr(GetImg(img, "thumbnail"),
    StrOr(GetImg(img, "tiny_url"), GetImg(img, "icon_url"))))))))

\* a rule that prefers the cover date
CanonicalDate_coverfirst(store_date, cover_date) ==
    IF cover_date /= None THEN cover_date ELSE store_date

\* "date": store_date or cover_date
CanonicalDate(store_date, cover_date) ==
    IF store_date /= None THEN store_date ELSE cover_date

\* _build_issue_defaults: the fields written for an issue
BuildIssueDefaults(s_issue, volume_id, t) ==
    [name |-> s_issue.name,
     number |-> s_issue.number,
     volume |-> volume_id,
     date |-> CanonicalDate(
                  ParseDate(s_issue.store_date, s_issue.store_form),
                  ParseDate(s_issue.cover_date, s_issue.cover_form)),
     image_medium_url |-> BestMediumImage(s_issue.image),
     cache_expires |-> t + Days(IssueTTLDays)]

\* a write that inserts a second row for an external id that has one
UpdateOrCreateIssue_insert(iss, id, defaults, t) ==
    PutRow(iss, IF id \in DOMAIN iss THEN id + 100 ELSE id,
           [cv_id |-> id, name |-> defaults.name,
            number |-> defaults.number, volume |-> defaults.volume,
            date |-> defaults.date, last_updated |-> t,
               image_medium_url |-> defaults.image_medium_url,
            cache_expires |-> defaults.cache_expires,
            api_fetch_failed |-> FALSE, api_fetch_failure_count |-> 0,
            api_last_failure |-> None])

\* ComicVineIssue.objects.update_or_create(cv_id=..., defaults=defaults)
UpdateOrCreateIssue(iss, id, defaults, t) ==
    LET base == IF id \in DOMAIN iss THEN iss[id]
                ELSE [cv_id |-> id, api_fetch_failed |-> FALSE,
                      api_fetch_failure_count |-> 0,
                      api_last_failure |-> None]
    IN PutRow(iss, id,
              [cv_id |-> id, name |-> defaults.name,
               number |-> defaults.number, volume |-> defaults.volume,
               date |-> defaults.date, last_updated |-> t,
               image_medium_url |-> defaults.image_medium_url,
               cache_expires |-> defaults.cache_expires,
               api_fetch_failed |-> base.api_fetch_failed,
               api_fetch_failure_count |-> base.api_fetch_failure_count,
               api_last_failure |-> base.api_last_failure])

\* _ensure_volume(vol_id, vol_name, publisher): the tables afterwards and
\* whether the save raised
EnsureVolume(vols, pubs, vol_id, vol_name, publisher, t) ==
    LET has_payload == publisher.id /= None
    IN IF vol_id \in DOMAIN vols
       THEN IF has_payload /\ vols[vol_id].publisher = None
            THEN \* backfill the missing publisher
                 LET pubs2 == UpsertPublisher(pubs, publisher.id,
                                              publisher.name)
                 IN [volumes |-> [vols EXCEPT ![vol_id] =
                                    SavedVolume([@ EXCEPT !.publisher =
                                                     publisher.id], t)],
                     publishers |-> pubs2, raised |-> FALSE]
            ELSE [volumes |-> vols, publishers |-> pubs, raised |-> FALSE]
       ELSE LET pubs2 == IF has_payload
                         THEN UpsertPublisher(pubs, publisher.id,
                                              publisher.name)
                         ELSE pubs
                created == reset_api_failure(
                    [NewVolume(vol_id,
                               IF TruthyStr(vol_name) THEN vol_name
                               ELSE SyntheticVolumeName(vol_id))
                     EXCEPT !.publisher = publisher.id,
                            !.cache_expires = t + Days(EnsureVolumeTTLDays)])
            IN IF CanSaveVolume(created, pubs2)
               THEN [volumes |-> PutRow(vols, vol_id, SavedVolume(created, t)),
                     publishers |-> pubs2, raised |-> FALSE]
               ELSE [volumes |-> vols, publishers |-> pubs2, raised |-> TRUE]

\* the "for s_issue in issues" loop of prime_issues_for_date_range, from
\* the i-th issue of the page on; it ends at the first exception
RECURSIVE UpsertPrimedIssues(_, _, _, _, _, _)
UpsertPrimedIssues(page_issues, i, vols, pubs, iss, t) ==
    IF i > Len(page_issues)
    THEN [volumes |-> vols, publishers |-> pubs, issues |-> iss,
          raised |-> FALSE]
    ELSE LET s_issue == page_issues[i]
         IN IF s_issue.volume.id = None
            THEN UpsertPrimedIssues(page_issues, i + 1, vols, pubs, iss, t)
            ELSE LET ev == EnsureVolume(vols, pubs, s_issue.volume.id,
                                        s_issue.volume.name,
                                        s_issue.volume.publisher, t)
                 IN IF ev.raised
                    THEN [volumes |-> ev.volumes,
                          publishers |-> ev.publishers, issues |-> iss,
                          raised |-> TRUE]
                    ELSE UpsertPrimedIssues(
                             page_issues, i + 1, ev.volumes, ev.publishers,
                             UpdateOrCreateIssue(
                                 iss, s_issue.id,
                                 BuildIssueDefaults(s_issue,
                                                    s_issue.volume.id, t),
                                 t),
                             t)

\* ------------------------------------------------------------------------
\* ComicVineService.get_volume_issues
\* ------------------------------------------------------------------------
\* a page loop that allows one page more than the cap
RECURSIVE FetchVolumePages_onemore(_, _, _, _, _, _)
FetchVolumePages_onemore(cat, volume_id, count_of_issues, fetched, page, fail_page) ==
    IF /\ \/ Len(fetched) = 0
          \/ (count_of_issues > 0 /\ Len(fetched) < count_of_issues)
       /\ page < MaxPagesPerVolume + 1
    THEN IF page + 1 = fail_page
         THEN [issues |-> fetched, pages |-> page + 1, raised |-> TRUE]
         ELSE FetchVolumePages_onemore(
                  cat, volume_id, count_of_issues,
                  fetched \o ListIssuesByVolume(cat, volume_id, page + 1),
                  page + 1, fail_page)
    ELSE [issues |-> fetched, pages |-> page, raised |-> FALSE]

\* the paging loop: "while (len(issues) == 0 or (count_of_issues > 0 and
\* len(issues) < count_of_issues)) and page < 3".  fail_page is the page
\* whose request raises (0: none does).
RECURSIVE FetchVolumePages(_, _, _, _, _, _)
FetchVolumePages(cat, volume_id, count_of_issues, fetched, page, fail_page) ==
    IF /\ \/ Len(fetched) = 0
          \/ (count_of_issues > 0 /\ Len(fetched) < count_of_issues)
       /\ page < MaxPagesPerVolume
    THEN IF page + 1 = fail_page
         THEN [issues |-> fetched, pages |-> page + 1, raised |-> TRUE]
         ELSE FetchVolumePages(
                  cat, volume_id, count_of_issues,
                  fetched \o ListIssuesByVolume(cat, volume_id, page + 1),
                  page + 1, fail_page)
    ELSE [issues |-> fetched, pages |-> page, raised |-> FALSE]

\* the "for s_issue in issues" loop of get_volume_issues
RECURSIVE UpsertVolumeIssues(_, _, _, _, _)
UpsertVolumeIssues(fetched, i, volume_id, iss, t) ==
    IF i > Len(fetched) THEN iss
    ELSE UpsertVolumeIssues(
             fetched, i + 1, volume_id,
             UpdateOrCreateIssue(iss, fetched[i].id,
                                 BuildIssueDefaults(fetched[i], volume_id, t),
                                 t),
             t)

\* a call that stores the pages it fetched before a request failed
GetVolumeIssues_keepfetched(volume_id, fail_page) ==
    LET existed == volume_id \in DOMAIN volumes
        before == IF existed THEN volumes[volume_id] ELSE NoRecord
        res(calls, writes, items, outcome) ==
            [Result("get_volume_issues", volume_id, FALSE, existed, before,
                    "list", NoRecord, calls, writes, now)
             EXCEPT !.items = items, !.outcome = outcome,
                    \* history: the call before was a get_volume_issues
                    \* call for the same volume and neither call failed
                    !.again = /\ outcome = "ok"
                              /\ ret.op = "get_volume_issues"
                              /\ ret.outcome = "ok"
                              /\ ret.volume_id = volume_id]
    IN
    /\ prime.pc = "idle"
    /\ UNCHANGED <<cv, now, volumes, publishers, catalog, prime, summary>>
    /\ IF ~cv \/ ~existed
       THEN /\ issues' = issues
            /\ ret' = res(0, 0, <<>>, "none")
       ELSE LET got == FetchVolumePages(catalog, volume_id,
                                        before.count_of_issues, <<>>, 0,
                                        fail_page)
            IN IF got.raised
               THEN /\ issues' = UpsertVolumeIssues(got.issues, 1, volume_id,
                                                    issues, now)
                    /\ ret' = res(got.pages, 0, <<>>, "raised")
               ELSE /\ issues' = UpsertVolumeIssues(got.issues, 1, volume_id,
                                                    issues, now)
                    /\ ret' = res(got.pages, Len(got.issues),
                                  [i \in 1 .. Len(got.issues) |->
                                      got.issues[i].id],
                                  "ok")

GetVolumeIssues(volume_id, fail_page) ==
    LET existed == volume_id \in DOMAIN volumes
        before == IF existed THEN volumes[volume_id] ELSE NoRecord
        res(calls, writes, items, outcome) ==
            [Result("get_volume_issues", volume_id, FALSE, existed, before,
                    "list", NoRecord, calls, writes, now)
             EXCEPT !.items = items, !.outcome = outcome,
                    \* history: the call before was a get_volume_issues
                    \* call for the same volume and neither call failed
                    !.again = /\ outcome = "ok"
                              /\ ret.op = "get_volume_issues"
                              /\ ret.outcome = "ok"
                              /\ ret.volume_id = volume_id]
    IN
    /\ prime.pc = "idle"
    /\ UNCHANGED <<cv, now, volumes, publishers, catalog, prime, summary>>
    /\ IF ~cv \/ ~existed
       THEN /\ issues' = issues
            /\ ret' = res(0, 0, <<>>, "none")
       ELSE LET got == FetchVolumePages(catalog, volume_id,
                                        before.count_of_issues, <<>>, 0,
                                        fail_page)
            IN IF got.raised
               THEN /\ issues' = issues
                    /\ ret' = res(got.pages, 0, <<>>, "raised")
               ELSE /\ issues' = UpsertVolumeIssues(got.issues, 1, volume_id,
                                                    issues, now)
                    /\ ret' = res(got.pages, Len(got.issues),
                                  [i \in 1 .. Len(got.issues) |->
                                      got.issues[i].id],
                                  "ok")

\* ------------------------------------------------------------------------
\* ComicVineService.prime_issues_for_date_range
\* ------------------------------------------------------------------------
IdlePrime ==
    [pc |-> "idle", start_date |-> None, end_date |-> None,
     start_page |-> None, cur |-> None, first_day |-> FALSE,
     page |-> None, day_fetched |-> 0, total_fetched |-> 0,
     last_page_used |-> None, resume_next_date |-> None,
     resume_next_page |-> None, budget_exhausted |-> FALSE,
     elapsed |-> 0,
     \* history: the arguments, the requests made and where the budget
     \* was first found exceeded in front of a remote call
     arg_start_page |-> None, arg_resume_date |-> None, chained |-> FALSE,
     requests |-> <<>>, hit_date |-> None, hit_page |-> None,
     \* history: whether a budget check read a time over the budget, the
     \* days whose page loop was left other than by the budget
     over_seen |-> FALSE, walked |-> {},
     \* history of the chain of suspended-then-resumed invocations this
     \* call continues: where its first call started, the tables it
     \* found and the requests of the earlier calls
     chain_cur |-> None, chain_page |-> None,
     base_volumes |-> <<>>, base_publishers |-> <<>>,
     chain_prefix |-> <<>>]

NoSummary ==
    [returned |-> FALSE, created |-> 0, updated |-> 0, fetched |-> 0,
     complete |-> FALSE, next_page |-> None, next_date |-> None,
     start_date |-> None, end_date |-> None,
     arg_start_page |-> None, arg_resume_date |-> None, chained |-> FALSE,
     requests |-> <<>>, hit_date |-> None, hit_page |-> None,
     over_seen |-> FALSE, walked |-> {},
     chain_cur |-> None, chain_page |-> None,
     base_volumes |-> <<>>, base_publishers |-> <<>>,
     chain_prefix |-> <<>>,
     configured |-> FALSE]

\* time.time() - budget_start, read again: any value not below the last one
ElapsedValues == 0 .. BudgetSeconds + 1

\* a budget test that lets one more second pass
OverBudget_lenient(elapsed) == elapsed > BudgetSeconds + 1

\* "time.time() - budget_start > budget_seconds"
OverBudget(elapsed) == elapsed > BudgetSeconds

\* one reading of time.time() - budget_start in front of a budget test
ReadClock(p, elapsed) ==
    [p EXCEPT !.elapsed = elapsed,
              !.over_seen = @ \/ elapsed > BudgetSeconds]

\* a day loop that starts every first day at page 1
EnterDay_restart(p) ==
    IF p.cur <= p.end_date
    THEN [p EXCEPT !.pc = "page", !.page = 1, !.day_fetched = 0]
    ELSE [p EXCEPT !.pc = "return"]

\* a day loop that starts every day at the resumed page
EnterDay_everyday(p) ==
    IF p.cur <= p.end_date
    THEN [p EXCEPT !.pc = "page", !.page = Max(1, p.arg_start_page),
                   !.day_fetched = 0]
    ELSE [p EXCEPT !.pc = "return"]

\* "while cur <= end_date" followed by the first lines of its body
EnterDay(p) ==
    IF p.cur <= p.end_date
    THEN [p EXCEPT !.pc = "page",
                   !.page = IF p.first_day THEN Max(1, p.start_page) ELSE 1,
                   !.day_fetched = 0]
    ELSE [p EXCEPT !.pc = "return"]

\* leaving "while page <= 3" without an exception
LeaveDay(p) ==
    [p EXCEPT !.pc = "day_end", !.total_fetched = @ + p.day_fetched]

\* the page loop of the day ended for a reason other than the budget
Walked(p) == [p EXCEPT !.walked = @ \cup {p.cur}]

\* an except branch that gives up the whole range
AbandonDay_abort(p) == [Walked(p) EXCEPT !.pc = "return"]

\* "except ServiceError" / "except Exception" around the page loop: the
\* error is logged and the day is given up
AbandonDay(p) == [Walked(p) EXCEPT !.pc = "day_end"]

\* "Resume on the same day/page we were about to fetch"
MarkResumeAtPage(p) ==
    [p EXCEPT !.budget_exhausted = TRUE,
              !.resume_next_date = IF p.resume_next_date = None
                                   THEN p.cur ELSE @,
              !.resume_next_page = IF p.resume_next_date = None
                                   THEN p.page ELSE @,
              !.hit_date = IF p.hit_date = None THEN p.cur ELSE @,
              !.hit_page = IF p.hit_date = None THEN p.page ELSE @]

\* a summary that always reports the page after the last one used
SummaryNextPage_fallback(complete, resume_next_page, last_page_used) ==
    IF complete THEN 1 ELSE last_page_used + 1

\* "next_page": 1 if complete else (resume_next_page or (last_page_used + 1))
SummaryNextPage(complete, resume_next_page, last_page_used) ==
    IF complete THEN 1
    ELSE IF TruthyInt(resume_next_page) THEN resume_next_page
    ELSE last_page_used + 1

PrimeStart(start_date, end_date, start_page, resume_date) ==
    /\ prime.pc = "idle"
    /\ UNCHANGED <<cv, now, volumes, publishers, issues, catalog>>
    /\ ret' = Result("prime", None, FALSE, FALSE, NoRecord, "none", NoRecord,
                     0, 0, now)
    /\ IF ~cv
       THEN /\ prime' = prime
            /\ summary' = [NoSummary EXCEPT !.returned = TRUE,
                                            !.complete = TRUE,
                                            !.start_date = start_date,
                                            !.end_date = end_date,
                                            !.arg_start_page = start_page,
                                            !.arg_resume_date = resume_date]
       ELSE LET cur0 == IF resume_date /= None THEN resume_date
                        ELSE start_date
                chained == /\ summary.returned
                           /\ ~summary.complete
                           /\ resume_date = summary.next_date
                           /\ start_page = summary.next_page
            IN
            /\ summary' = NoSummary
            /\ prime' = EnterDay(
                 [IdlePrime EXCEPT
                    !.start_date = start_date,
                    !.end_date = end_date,
                    !.start_page = start_page,
                    !.cur = cur0,
                    !.first_day = TRUE,
                    !.last_page_used = Max(1, start_page),
                    !.resume_next_page = 1,
                    !.arg_start_page = start_page,
                    !.arg_resume_date = resume_date,
                    !.chained = chained,
                    !.chain_cur = IF chained THEN summary.chain_cur
                                  ELSE cur0,
                    !.chain_page = IF chained THEN summary.chain_page
                                   ELSE Max(1, start_page),
                    !.base_volumes = IF chained THEN summary.base_volumes
                                     ELSE volumes,
                    !.base_publishers = IF chained
                                        THEN summary.base_publishers
                                        ELSE publishers,
                    !.chain_prefix = IF chained
                                     THEN summary.chain_prefix
                                          \o summary.requests
                                     ELSE <<>>])

\* one turn of "while page <= 3": the budget check, the remote call and the
\* upserts of the page
PrimePage(elapsed, outcome) ==
    /\ prime.pc = "page"
    /\ UNCHANGED <<cv, now, catalog, summary, ret>>
    /\ IF prime.page > MaxPagesPerDay
       THEN /\ prime' = LeaveDay(Walked(prime))
            /\ UNCHANGED <<volumes, publishers, issues>>
       ELSE
       /\ elapsed >= prime.elapsed
       /\ LET p == ReadClock(prime, elapsed)
          IN IF OverBudget(elapsed)
             THEN /\ prime' = LeaveDay(MarkResumeAtPage(p))
                  /\ UNCHANGED <<volumes, publishers, issues>>
             ELSE LET called == [p EXCEPT !.requests =
                                     Append(@, <<p.cur, p.page>>)]
                      page_issues == ListIssuesByDate(catalog, p.cur, p.page)
                      done == UpsertPrimedIssues(page_issues, 1, volumes,
                                                 publishers, issues, now)
                  IN IF outcome /= "ok"
                     THEN /\ prime' = AbandonDay(called)
                          /\ UNCHANGED <<volumes, publishers, issues>>
                     ELSE IF Len(page_issues) = 0
                     THEN /\ prime' = LeaveDay(Walked(called))
                          /\ UNCHANGED <<volumes, publishers, issues>>
                     ELSE /\ volumes' = done.volumes
                          /\ publishers' = done.publishers
                          /\ issues' = done.issues
                          /\ LET counted == [called EXCEPT !.day_fetched =
                                               @ + Len(page_issues)]
                             IN prime' =
                                  IF done.raised
                                  THEN AbandonDay(counted)
                                  ELSE IF Len(page_issues) < PageSize
                                  THEN LeaveDay(Walked([counted EXCEPT
                                           !.last_page_used = p.page]))
                                  ELSE [counted EXCEPT
                                           !.last_page_used = p.page,
                                           !.page = @ + 1]

\* the end of the body of "while cur <= end_date"
PrimeDayEnd(elapsed) ==
    /\ prime.pc = "day_end"
    /\ elapsed >= prime.elapsed
    /\ UNCHANGED <<cv, now, volumes, publishers, issues, catalog, summary,
                   ret>>
    /\ LET p == ReadClock([prime EXCEPT !.first_day = FALSE,
                                        !.start_page = 1,
                                        !.cur = @ + 1],
                        elapsed)
       IN prime' =
            IF OverBudget(elapsed)
            THEN [p EXCEPT !.pc = "return",
                           !.budget_exhausted = TRUE,
                           !.resume_next_date =
                               IF p.resume_next_date = None THEN p.cur ELSE @,
                           !.resume_next_page =
                               IF p.resume_next_date = None THEN 1 ELSE @]
            ELSE EnterDay(p)

\* a summary complete whenever the cursor has passed end_date
Complete_walked(p) == p.cur > p.end_date

\* "complete = not budget_exhausted"
Complete(p) == ~p.budget_exhausted

PrimeReturn ==
    /\ prime.pc = "return"
    /\ UNCHANGED <<cv, now, volumes, publishers, issues, catalog, ret>>
    /\ LET complete == Complete(prime)
       IN summary' =
            [returned |-> TRUE, created |-> 0, updated |-> 0,
             fetched |-> prime.total_fetched,
             complete |-> complete,
             next_page |-> SummaryNextPage(complete, prime.resume_next_page,
                                           prime.last_page_used),
             next_date |-> IF complete THEN None
                           ELSE prime.resume_next_date,
             start_date |-> prime.start_date, end_date |-> prime.end_date,
             arg_start_page |-> prime.arg_start_page,
             arg_resume_date |-> prime.arg_resume_date,
             chained |-> prime.chained,
             requests |-> prime.requests,
             hit_date |-> prime.hit_date, hit_page |-> prime.hit_page,
             over_seen |-> prime.over_seen,
             walked |-> prime.walked,
             chain_cur |-> prime.chain_cur, chain_page |-> prime.chain_page,
             base_volumes |-> prime.base_volumes,
             base_publishers |-> prime.base_publishers,
             chain_prefix |-> prime.chain_prefix,
             configured |-> TRUE]
    /\ prime' = IdlePrime

\* the log starts afresh with every call, and remembers whether the
\* adapter failed an earlier call of the chain the call continues
LogPrimeStart ==
    errors' = [failed |-> <<>>,
               chain_failed |-> /\ prime'.chained
                                /\ (errors.chain_failed
                                       \/ Len(errors.failed) > 0)]

\* "except ComicVineServiceError" / "except Exception": the request the
\* adapter failed is written to the log
LogPrimePage(elapsed, outcome) ==
    errors' = IF /\ prime.page <= MaxPagesPerDay
                 /\ ~OverBudget(elapsed)
                 /\ outcome /= "ok"
              THEN [errors EXCEPT !.failed =
                                     Append(@, <<prime.cur, prime.page>>)]
              ELSE errors

\* the requests of one prime_issues_for_date_range call whose budget never
\* runs out and whose adapter never fails, started with the cursor at
\* (cur, page) over the tables vols and pubs
RECURSIVE UnboundedRequests(_, _, _, _, _, _)
UnboundedRequests(cat, end_date, cur, page, vols, pubs) ==
    IF cur > end_date THEN <<>>
    ELSE IF page > MaxPagesPerDay
    THEN UnboundedRequests(cat, end_date, cur + 1, 1, vols, pubs)
    ELSE LET page_issues == ListIssuesByDate(cat, cur, page)
             done == UpsertPrimedIssues(page_issues, 1, vols, pubs, <<>>, 0)
         IN << <<cur, page>> >> \o
            (IF Len(page_issues) = 0
             THEN UnboundedRequests(cat, end_date, cur + 1, 1, vols, pubs)
             ELSE IF done.raised \/ Len(page_issues) < PageSize
             THEN UnboundedRequests(cat, end_date, cur + 1, 1, done.volumes,
                                    done.publishers)
             ELSE UnboundedRequests(cat, end_date, cur, page + 1,
                                    done.volumes, done.publishers))

\* ------------------------------------------------------------------------
\* ComicVineWeek and WeeksViewSet.retrieve
\* ------------------------------------------------------------------------
\* ComicVineWeek(week_start=...): a new, unsaved instance with the field
\* defaults
NewWeek(week_start) ==
    [week_start |-> week_start, priming_complete |-> FALSE,
     next_date_to_prime |-> None, current_day_page |-> 0,
     last_updated |-> None, cache_expires |-> None,
     api_fetch_failed |-> FALSE, api_fetch_failure_count |-> 0,
     api_last_failure |-> None]

\* Model.save(): last_updated is auto_now
SavedWeek(row, t) == [row EXCEPT !.last_updated = t]

\* a week that starts on the requested day
WeekStartOf_target(date) == date

\* the Monday of the week of a date: target_date - (isoweekday - 1) days.
\* A week of the model has NumDays days and date 0 is a Monday.
WeekStartOf(date) == date - (date % NumDays)
WeekEndOf(date) == WeekStartOf(date) + (NumDays - 1)

\* the request that carries no record of an earlier one
IdleWeekRequest ==
    [pc |-> "idle", outcome |-> "none", prev_outcome |-> "none",
     at |-> None, week_start |-> None, end_date |-> None,
     prime_param |-> FALSE, existed |-> FALSE, before |-> NewWeek(None),
     attempted |-> FALSE, resume_date |-> None, start_page |-> None,
     calls |-> 0, limit |-> None, served |-> <<>>]

\* a priming test that takes an unfinished week for primed
ShouldPrime_unfinished(existed, row, t) ==
    \/ ~existed
    \/ is_cache_expired(row, t)
    \/ row.api_fetch_failed

\* "should_prime = not week_cache or week_cache.is_cache_expired() or
\* week_cache.api_fetch_failed or not week_cache.priming_complete"
ShouldPrime(existed, row, t) ==
    \/ ~existed
    \/ is_cache_expired(row, t)
    \/ row.api_fetch_failed
    \/ ~row.priming_complete

\* a request that starts every priming call from the start of the week
ResumeArgs_restart(existed, row) == [resume_date |-> None, start_page |-> 1]

\* a request that resumes on the stored day, from that day's first page
ResumeArgs_pageone(existed, row) ==
    [resume_date |-> IF existed THEN row.next_date_to_prime ELSE None,
     start_page |-> 1]

\* "Use resume markers if present"
ResumeArgs(existed, row) ==
    [resume_date |-> IF existed THEN row.next_date_to_prime ELSE None,
     start_page |-> IF existed /\ TruthyInt(row.current_day_page)
                    THEN row.current_day_page ELSE 1]

\* a success branch that gives a suspended week the TTL of a complete one
WeekAfterPrime_longttl(row, complete, next_date, next_page, t) ==
    SavedWeek(
        [reset_api_failure(row) EXCEPT
            !.priming_complete = complete,
            !.next_date_to_prime = IF complete THEN None ELSE next_date,
            !.current_day_page = IF complete THEN 0 ELSE next_page,
            !.cache_expires = t + Days(WeekCompleteTTLDays)],
        t)

\* a row saved with a checkpoint one day ahead of the summary's
WeekAfterPrime_ahead(row, complete, next_date, next_page, t) ==
    SavedWeek(
        [reset_api_failure(row) EXCEPT
            !.priming_complete = complete,
            !.next_date_to_prime = IF complete THEN None ELSE next_date + 1,
            !.current_day_page = IF complete THEN 0 ELSE next_page,
            !.cache_expires = IF complete
                              THEN t + Days(WeekCompleteTTLDays)
                              ELSE t + Seconds(WeekRetryTTLSeconds)],
        t)

\* a success branch that leaves the resume markers on a complete week
WeekAfterPrime_keepmarkers(row, complete, next_date, next_page, t) ==
    SavedWeek(
        [reset_api_failure(row) EXCEPT
            !.priming_complete = complete,
            !.next_date_to_prime = IF complete THEN @ ELSE next_date,
            !.current_day_page = IF complete THEN @ ELSE next_page,
            !.cache_expires = IF complete
                              THEN t + Days(WeekCompleteTTLDays)
                              ELSE t + Seconds(WeekRetryTTLSeconds)],
        t)

\* the row saved after a priming call that returned its summary
WeekAfterPrime(row, complete, next_date, next_page, t) ==
    SavedWeek(
        [reset_api_failure(row) EXCEPT
            !.priming_complete = complete,
            !.next_date_to_prime = IF complete THEN None ELSE next_date,
            !.current_day_page = IF complete THEN 0 ELSE next_page,
            !.cache_expires = IF complete
                              THEN t + Days(WeekCompleteTTLDays)
                              ELSE t + Seconds(WeekRetryTTLSeconds)],
        t)

\* an except branch that forgets where priming was suspended
WeekAfterRaise_forgetful(row, t) ==
    SavedWeek(
        mark_api_failure(
            [row EXCEPT !.next_date_to_prime = None,
                        !.current_day_page = 0,
                        !.cache_expires =
                            IF @ = None
                            THEN t + Minutes(WeekFailureTTLMinutes) ELSE @],
            t),
        t)

\* the row saved by the except branch around the priming call
WeekAfterRaise(row, t) ==
    SavedWeek(
        mark_api_failure(
            [row EXCEPT !.cache_expires =
                            IF @ = None
                            THEN t + Minutes(WeekFailureTTLMinutes) ELSE @],
            t),
        t)

\* order_by("date", "volume__name", "number"); the model breaks ties in the
\* date by volume id and issue id
IssueBefore(iss, a, b) ==
    \/ iss[a].date < iss[b].date
    \/ iss[a].date = iss[b].date /\ iss[a].volume < iss[b].volume
    \/ iss[a].date = iss[b].date /\ iss[a].volume = iss[b].volume /\ a <= b

\* the issues ids in that order: the k-th is the one with k issues at or
\* before it
OrderedIssues(iss, ids) ==
    [k \in 1 .. Cardinality(ids) |->
        CHOOSE a \in ids :
            Cardinality({b \in ids : IssueBefore(iss, b, a)}) = k]

\* "limit = max(1, min(2000, limit))"
ClampLimit(limit) == Max(1, Min(MaxLimit, limit))

\* a read that answers with every issue of the week
ServeWeek_unlimited(iss, start_date, end_date, limit) ==
    OrderedIssues(iss, {i \in DOMAIN iss :
                           /\ iss[i].date >= start_date
                           /\ iss[i].date <= end_date})

\* ComicVineIssue.objects.filter(date__gte=start_date, date__lte=end_date)
\* ordered and cut at the limit
ServeWeek(iss, start_date, end_date, limit) ==
    LET ordered == OrderedIssues(iss, {i \in DOMAIN iss :
                                          /\ iss[i].date >= start_date
                                          /\ iss[i].date <= end_date})
    IN SubSeq(ordered, 1, Min(ClampLimit(limit), Len(ordered)))

\* WeeksViewSet.retrieve for a valid date pk, up to the priming call or,
\* when no priming call is made or it ends at once, up to the read
WeekRequest(target_date, prime_param, service_ok, limit) ==
    LET start_date == WeekStartOf(target_date)
        end_date == WeekEndOf(target_date)
        existed == start_date \in DOMAIN weeks
        before == IF existed THEN weeks[start_date] ELSE NewWeek(start_date)
        should_prime == prime_param /\ ShouldPrime(existed, before, now)
        args == ResumeArgs(existed, before)
        req == [IdleWeekRequest EXCEPT
                   !.prev_outcome = wreq.outcome,
                   !.at = now, !.week_start = start_date,
                   !.end_date = end_date, !.prime_param = prime_param,
                   !.existed = existed, !.before = before,
                   !.attempted = should_prime, !.limit = limit]
        served == ServeWeek(issues, start_date, end_date, limit)
    IN
    /\ wreq.pc = "idle"
    /\ prime.pc = "idle"
    /\ service_ok \/ before.api_fetch_failure_count < MaxFailures
    /\ IF ~should_prime
       THEN /\ UNCHANGED <<cv, now, volumes, publishers, issues, catalog,
                           prime, summary, ret, weeks>>
            /\ wreq' = [req EXCEPT !.outcome = IF prime_param THEN "skipped"
                                               ELSE "disabled",
                                   !.served = served]
       ELSE IF cv /\ ~service_ok
       THEN \* ComicVineService() raises
            /\ UNCHANGED <<cv, now, volumes, publishers, issues, catalog,
                           prime, summary, ret>>
            /\ weeks' = PutRow(weeks, start_date, WeekAfterRaise(before, now))
            /\ wreq' = [req EXCEPT !.outcome = "raised", !.served = served,
                                   !.resume_date = args.resume_date,
                                   !.start_page = args.start_page]
       ELSE /\ PrimeStart(start_date, end_date, args.start_page,
                          args.resume_date)
            /\ IF ~cv
               THEN /\ weeks' = PutRow(weeks, start_date,
                                       WeekAfterPrime(before, TRUE, None, 1,
                                                      now))
                    /\ wreq' = [req EXCEPT !.outcome = "complete",
                                           !.served = served,
                                           !.resume_date = args.resume_date,
                                           !.start_page = args.start_page]
               ELSE /\ weeks' = weeks
                    /\ wreq' = [req EXCEPT !.pc = "priming",
                                           !.resume_date = args.resume_date,
                                           !.start_page = args.start_page]

\* WeeksViewSet.retrieve from the return of the priming call on: the week
\* row is saved and the week is read
WeekPrimeReturn ==
    /\ wreq.pc = "priming"
    /\ PrimeReturn
    /\ weeks' = PutRow(weeks, wreq.week_start,
                       WeekAfterPrime(wreq.before, summary'.complete,
                                      summary'.next_date, summary'.next_page,
                                      now))
    /\ wreq' = [wreq EXCEPT
                   !.pc = "idle",
                   !.outcome = IF summary'.complete THEN "complete"
                               ELSE "suspended",
                   !.calls = Len(summary'.requests),
                   !.served = ServeWeek(issues, wreq.week_start,
                                        wreq.end_date, wreq.limit)]

\* ------------------------------------------------------------------------
\* The clock
\* ------------------------------------------------------------------------
Tick ==
    /\ now < MaxNow
    /\ now' = now + 1
    /\ prime.pc = "idle"
    /\ UNCHANGED <<cv, volumes, publishers, issues, catalog, prime, summary,
                   ret>>

\* a tick of the clock in front of the week endpoint
WeekTick == now < MaxWeekTicks /\ Tick

\* the TTL of a complete week passes without a request
WeekPasses ==
    /\ now <= MaxNow
    /\ now' = now + Days(WeekCompleteTTLDays)
    /\ prime.pc = "idle"
    /\ UNCHANGED <<cv, volumes, publishers, issues, catalog, prime, summary,
                   ret>>

\* ------------------------------------------------------------------------
\* Specification
\* ------------------------------------------------------------------------
Init ==
    /\ cv \in BOOLEAN
    /\ now = 0
    /\ volumes = <<>>
    /\ publishers = <<>>
    /\ issues = <<>>
    /\ catalog \in Catalogs
    /\ prime = IdlePrime
    /\ summary = NoSummary
    /\ invocations = 0
    /\ weeks = <<>>
    /\ wreq = IdleWeekRequest
    /\ errors = NoErrors
    /\ parked = NoParked
    /\ asked = {}
    /\ run = IdleRun
    /\ db = EmptyDb
    /\ ret = Result("init", None, FALSE, FALSE, NoRecord, "none", NoRecord,
                    0, 0, 0)

DoGetVolume(ids) ==
    \E volume_id \in ids, force_refresh \in BOOLEAN,
       outcome \in AdapterOutcomes, payload \in VolumePayloads :
        GetVolume(volume_id, force_refresh, outcome, payload)

DoPrimeStart(start_pages, resume_dates) ==
    \E start_date \in PrimeStartDates, end_date \in PrimeEndDates,
       start_page \in start_pages, resume_date \in resume_dates :
        /\ start_date <= end_date
        /\ PrimeStart(start_date, end_date, start_page, resume_date)

\* the calls a caller makes that keeps the returned resume markers: from
\* the start, or from where the last suspended call said to resume
DoPrimeFromCheckpoint ==
    IF summary.returned /\ ~summary.complete
    THEN DoPrimeStart({summary.next_page}, {summary.next_date})
    ELSE DoPrimeStart({1}, {None})

DoPrimePage ==
    \E elapsed \in ElapsedValues, outcome \in AdapterOutcomes :
        PrimePage(elapsed, outcome)

\* a turn of the page loop, with the adapter's failure written down
DoPrimePageLogged ==
    \E elapsed \in ElapsedValues, outcome \in AdapterOutcomes :
        PrimePage(elapsed, outcome) /\ LogPrimePage(elapsed, outcome)

DoPrimeDayEnd == \E elapsed \in ElapsedValues : PrimeDayEnd(elapsed)

DoGetVolumeIssues ==
    \E volume_id \in VolumeIds, fail_page \in 0 .. MaxPagesPerVolume :
        GetVolumeIssues(volume_id, fail_page)

Next ==
    \/ /\ Invoke /\ DoGetVolume(RequestedVolumeIds)
       /\ UNCHANGED <<weeks, wreq, errors, app>>
    \/ Invoke /\ DoGetVolumeIssues /\ UNCHANGED <<weeks, wreq, errors, app>>
    \/ /\ Invoke /\ DoPrimeFromCheckpoint
       /\ UNCHANGED <<weeks, wreq, errors, app>>
    \/ DoPrimePage /\ UNCHANGED <<invocations, weeks, wreq, errors, app>>
    \/ DoPrimeDayEnd /\ UNCHANGED <<invocations, weeks, wreq, errors, app>>
    \/ PrimeReturn /\ UNCHANGED <<invocations, weeks, wreq, errors, app>>
    \/ Tick /\ UNCHANGED <<invocations, weeks, wreq, errors, app>>

\* every operation of the service, interleaved with the clock; a behaviour
\* makes at most MaxInvocations service calls, and its priming calls start
\* from the beginning or from the last returned resume markers
Spec == Init /\ [][Next]_vars

\* get_volume alone, called any number of times, with the clock
NextVolume ==
    \/ /\ DoGetVolume(RequestedVolumeIds)
       /\ UNCHANGED <<invocations, weeks, wreq, errors, app>>
    \/ Tick /\ UNCHANGED <<invocations, weeks, wreq, errors, app>>

SpecVolume == Init /\ [][NextVolume]_vars

\* range priming alone, with any start page and resume date
NextPrime ==
    \/ /\ DoPrimeStart(PrimeStartPages, PrimeResumeDates)
       /\ LogPrimeStart
       /\ UNCHANGED <<invocations, weeks, wreq, app>>
    \/ DoPrimePageLogged /\ UNCHANGED <<invocations, weeks, wreq, app>>
    \/ DoPrimeDayEnd /\ UNCHANGED <<invocations, weeks, wreq, errors, app>>
    \/ PrimeReturn /\ UNCHANGED <<invocations, weeks, wreq, errors, app>>

\* range priming starts from the empty store in front of any of the
\* upstream catalogues
InitPrime ==
    /\ cv \in BOOLEAN
    /\ now = 0
    /\ volumes = <<>>
    /\ publishers = <<>>
    /\ issues = <<>>
    /\ catalog \in PrimeCatalogs
    /\ prime = IdlePrime
    /\ summary = NoSummary
    /\ invocations = 0
    /\ weeks = <<>>
    /\ wreq = IdleWeekRequest
    /\ errors = NoErrors
    /\ parked = NoParked
    /\ asked = {}
    /\ run = IdleRun
    /\ db = EmptyDb
    /\ ret = Result("init", None, FALSE, FALSE, NoRecord, "none", NoRecord,
                    0, 0, 0)

SpecPrime == InitPrime /\ [][NextPrime]_vars

DoWeekRequest ==
    \E target_date \in Dates, prime_param \in BOOLEAN,
       service_ok \in BOOLEAN, limit \in WeekLimits :
        WeekRequest(target_date, prime_param, service_ok, limit)

\* at most MaxInvocations requests for the week, the priming calls they
\* make, and the clock
NextWeek ==
    \/ Invoke /\ DoWeekRequest /\ UNCHANGED <<errors, app>>
    \/ DoPrimePage /\ UNCHANGED <<invocations, weeks, wreq, errors, app>>
    \/ DoPrimeDayEnd /\ UNCHANGED <<invocations, weeks, wreq, errors, app>>
    \/ WeekPrimeReturn /\ UNCHANGED <<invocations, errors, app>>
    \/ WeekTick /\ UNCHANGED <<invocations, weeks, wreq, errors, app>>
    \/ WeekPasses /\ UNCHANGED <<invocations, weeks, wreq, errors, app>>

SpecWeek == InitPrime /\ [][NextWeek]_vars

\* a request for the week whose priming call gets to run
PrimingRequest ==
    /\ \E target_date \in Dates, limit \in WeekLimits :
           WeekRequest(target_date, TRUE, TRUE, limit)
    /\ UNCHANGED <<invocations, errors, app>>

\* a request for the week that asks for no priming
PlainRequest ==
    /\ \E target_date \in Dates, limit \in WeekLimits :
           WeekRequest(target_date, FALSE, TRUE, limit)
    /\ UNCHANGED <<invocations, errors, app>>

\* a turn of the page loop of a priming call that gets to make its first
\* remote call before its budget runs out
PrimePageInTime ==
    /\ \E elapsed \in ElapsedValues, outcome \in AdapterOutcomes :
           /\ Len(prime.requests) = 0 => ~(elapsed > BudgetSeconds)
           /\ PrimePage(elapsed, outcome)
    /\ UNCHANGED <<invocations, weeks, wreq, errors, app>>

PrimeDayEndOfWeek ==
    DoPrimeDayEnd /\ UNCHANGED <<invocations, weeks, wreq, errors, app>>

WeekPrimeReturnOfWeek ==
    WeekPrimeReturn /\ UNCHANGED <<invocations, errors, app>>

\* the steps that carry the priming of the week forward; at most one of
\* the four is enabled in a state
WeekProgress ==
    \/ PrimingRequest
    \/ PrimePageInTime
    \/ PrimeDayEndOfWeek
    \/ WeekPrimeReturnOfWeek

NextWeekLive == WeekProgress \/ PlainRequest

\* any number of requests for the week within one tick of the clock:
\* requests that ask for priming keep arriving, every priming call runs
\* on and makes its first remote call within its budget
SpecWeekLive ==
    /\ InitPrime
    /\ [][NextWeekLive]_vars
    /\ WF_vars(WeekProgress)

\* ------------------------------------------------------------------------
\* Properties of get_volume (checked under SpecVolume)
\* ------------------------------------------------------------------------
IsGetVolume == ret.op = "get_volume"

AdapterFailed == ret.outcome \in {"service_error", "unexpected_error"}

\* C1: get_volume never raises to its caller: whatever the cache state and
\* the adapter outcome, the call returns a record or nothing.
C1_GetVolumeNeverRaises ==
    IsGetVolume => ret.returned \in {"record", "none"}

C2_BackoffCase ==
    /\ IsGetVolume
    /\ ret.existed
    /\ ret.before.api_fetch_failed
    /\ ret.at - ret.before.api_last_failure < Hours(BackoffHours)

C3_PlaceholderPersisted ==
    (IsGetVolume /\ ~ret.existed /\ ret.path = "fetch" /\ AdapterFailed) =>
        /\ ret.returned = "record"
        /\ ret.volume_id \in DOMAIN volumes
        /\ volumes[ret.volume_id] = ret.record
        /\ ret.record.name = SyntheticVolumeName(ret.volume_id)
        /\ ret.record.api_fetch_failed
        /\ ret.record.api_fetch_failure_count = 1
        /\ ret.record.api_last_failure = ret.at

C4_UnforcedCachedCall == IsGetVolume /\ ret.existed /\ ~ret.force_refresh

C5_FreshCase ==
    /\ C4_UnforcedCachedCall
    /\ ~ret.before.api_fetch_failed
    /\ ~(ret.at > ret.before.cache_expires)

C6_AtMostOneRemoteCall ==
    IsGetVolume =>
        /\ ret.calls <= 1
        /\ ret.path /= "fetch" => ret.calls = 0

C6_Witness ==
    /\ IsGetVolume
    /\ ret.path = "fetch"
    /\ AdapterFailed
    /\ ret.calls = 1

\* C7: after a successful remote fetch the persisted volume has
\* fetch_failed = false, fetch_failure_count = 0, last_failure unset and
\* cache_expires = now + the configured TTL, whatever its state before.
C7_SuccessResetsAndPersists ==
    (IsGetVolume /\ ret.path = "fetch" /\ ret.outcome = "ok") =>
        /\ ret.returned = "record"
        /\ ret.volume_id \in DOMAIN volumes
        /\ ~volumes[ret.volume_id].api_fetch_failed
        /\ volumes[ret.volume_id].api_fetch_failure_count = 0
        /\ volumes[ret.volume_id].api_last_failure = None
        /\ volumes[ret.volume_id].cache_expires
               = ret.at + Hours(CacheExpireHours)

C8_FailedFetchOfCached ==
    IsGetVolume /\ ret.existed /\ ret.path = "fetch" /\ AdapterFailed

\* C8: a failed remote fetch for a cached volume persists the record with
\* fetch_failed = true, fetch_failure_count one higher and last_failure =
\* now, and with cache_expires, name, start_year, issue count and publisher
\* as they were.
C8_FailureMarksOnly ==
    C8_FailedFetchOfCached =>
        /\ ret.returned = "record"
        /\ ret.volume_id \in DOMAIN volumes
        /\ volumes[ret.volume_id] =
              [ret.before EXCEPT
                  !.api_fetch_failed = TRUE,
                  !.api_fetch_failure_count =
                      ret.before.api_fetch_failure_count + 1,
                  !.api_last_failure = ret.at,
                  !.last_updated = ret.at]
        /\ ret.record = volumes[ret.volume_id]

C8_Witness ==
    /\ C8_FailedFetchOfCached
    /\ ret.before.api_fetch_failure_count = 1
    /\ volumes[ret.volume_id].api_fetch_failure_count = 2
    /\ volumes[ret.volume_id].cache_expires < ret.at

ResumedFrom(requests, d, p) ==
    /\ Len(requests) > 0 => requests[1] = <<d, p>>
    /\ \A i \in 1 .. Len(requests) :
          \/ requests[i][1] > d
          \/ requests[i][1] = d /\ requests[i][2] >= p

\* C10: an invocation that finds the budget exceeded in front of the remote
\* call for (day d, page p) returns complete = false, next_date = d and
\* next_page = p; an invocation given resume_date = d and start_page = p
\* makes its first remote call for (d, p) and requests no earlier day and
\* no lower page of day d.
C10_ResumeMarkerExact ==
    /\ (summary.returned /\ summary.hit_date /= None) =>
          /\ ~summary.complete
          /\ summary.next_date = summary.hit_date
          /\ summary.next_page = summary.hit_page
    /\ (summary.returned /\ summary.arg_resume_date /= None
                         /\ summary.arg_start_page >= 1) =>
          ResumedFrom(summary.requests, summary.arg_resume_date,
                      summary.arg_start_page)
    /\ (prime.pc /= "idle" /\ prime.arg_resume_date /= None
                           /\ prime.arg_start_page >= 1) =>
          ResumedFrom(prime.requests, prime.arg_resume_date,
                      prime.arg_start_page)

C10_Witness ==
    /\ summary.returned
    /\ summary.chained
    /\ summary.arg_start_page = 2
    /\ Len(summary.requests) >= 2
    /\ summary.hit_date /= None
    /\ summary.hit_date > summary.arg_resume_date

IsPrefix(a, b) == Len(a) <= Len(b) /\ SubSeq(b, 1, Len(a)) = a

Range(seq) == {seq[i] : i \in 1 .. Len(seq)}

\* the adapter failed a request of the chain of invocations that the
\* running call, or the last returned summary, belongs to
ChainFailed == errors.chain_failed \/ Len(errors.failed) > 0

\* the requests of the chain of suspended-then-resumed invocations that h
\* (a running call or a returned summary) belongs to
ChainRequests(h) == h.chain_prefix \o h.requests

\* the requests of one invocation with an unbounded budget, given the
\* arguments and the tables of the first call of the chain of h
OnePassRequests(h) ==
    UnboundedRequests(catalog, h.end_date, h.chain_cur, h.chain_page,
                      h.base_volumes, h.base_publishers)

\* C11: with a fixed upstream and an adapter that never fails, the remote
\* requests of a chain of suspended-then-resumed invocations, concatenated,
\* are at every moment a prefix of the requests of one invocation over the
\* same range with an unbounded budget, and equal to them when the chain
\* ends with a complete summary: no request is skipped or made twice.
C11_ChainEqualsOnePass ==
    /\ (prime.pc /= "idle" /\ ~ChainFailed) =>
          IsPrefix(ChainRequests(prime), OnePassRequests(prime))
    /\ (summary.returned /\ summary.configured /\ ~ChainFailed) =>
          /\ IsPrefix(ChainRequests(summary), OnePassRequests(summary))
          /\ summary.complete =>
                ChainRequests(summary) = OnePassRequests(summary)

C11_Witness ==
    /\ summary.returned
    /\ summary.complete
    /\ summary.chained
    /\ ~ChainFailed
    /\ summary.arg_start_page = 2
    /\ Len(summary.chain_prefix) >= 1
    /\ Len(summary.requests) >= 3
    /\ ChainRequests(summary) = OnePassRequests(summary)

\* C12: within one priming invocation every remote call follows a budget
\* test that read a time within the budget, and no remote call is made
\* once a budget test has read a time over the budget.
C12_NoCallOverBudget ==
    [][Len(prime'.requests) > Len(prime.requests) =>
          /\ ~prime.over_seen
          /\ prime'.elapsed <= BudgetSeconds
          /\ prime'.elapsed >= prime.elapsed]_vars

C12_Witness ==
    /\ prime.pc = "day_end"
    /\ prime.over_seen
    /\ prime.hit_page = 2
    /\ Len(prime.requests) >= 2

\* the cursor prime_issues_for_date_range started from
Cursor(h) ==
    IF h.arg_resume_date /= None THEN h.arg_resume_date ELSE h.start_date

WalkedAll(h) == \A d \in Cursor(h) .. h.end_date : d \in h.walked

UpstreamInRange(h) ==
    {catalog[k].id :
        k \in {j \in 1 .. Len(catalog) :
                  catalog[j].store_date \in h.start_date .. h.end_date}}

\* the cached issues whose date lies in the range of h
CachedInRange(h) ==
    {i \in DOMAIN issues : issues[i].date \in h.start_date .. h.end_date}

\* C14: with a budget that never runs out and an adapter that never fails,
\* one priming invocation over [start_date, end_date] returns complete =
\* true and leaves as cached issues of the range exactly the upstream
\* issues of its dates, however many issues a day has.
C14_OnePassCachesRange ==
    (/\ summary.returned
     /\ summary.configured
     /\ summary.arg_resume_date = None
     /\ summary.arg_start_page <= 1
     /\ ~summary.over_seen
     /\ Len(errors.failed) = 0) =>
        /\ summary.complete
        /\ CachedInRange(summary) = UpstreamInRange(summary)

\* every day after a failed request of h is begun at page 1, unless the
\* budget stopped the invocation at or before that day
LaterDaysProcessed(h, log) ==
    \A i \in 1 .. Len(log.failed) :
        \A d \in log.failed[i][1] + 1 .. h.end_date :
            \/ <<d, 1>> \in Range(h.requests)
            \/ h.over_seen /\ h.next_date /= None /\ h.next_date <= d

\* no page of a day is requested after the page the adapter failed on
DayAbandoned(h, log) ==
    \A i \in 1 .. Len(log.failed) :
        \A j \in 1 .. Len(h.requests) :
            h.requests[j][1] = log.failed[i][1] =>
                h.requests[j][2] <= log.failed[i][2]

\* C15: an adapter error on a page of day d abandons day d only: the
\* invocation goes on to the end of that day's loop without raising, the
\* store keeps what was upserted, no further page of day d is requested,
\* and every later day through end_date is begun at page 1 unless the
\* budget stops the invocation first.
C15_ErrorAbandonsDayOnly ==
    [][/\ Len(errors'.failed) > Len(errors.failed) =>
             /\ prime'.pc = "day_end"
             /\ prime'.cur = prime.cur
             /\ issues' = issues
             /\ volumes' = volumes
       /\ DOMAIN issues \subseteq DOMAIN issues'
       /\ prime'.pc /= "idle" => DayAbandoned(prime', errors')
       /\ summary'.returned =>
             /\ DayAbandoned(summary', errors')
             /\ LaterDaysProcessed(summary', errors')]_vars

C15_Witness ==
    /\ summary.returned
    /\ <<0, 2>> \in Range(errors.failed)
    /\ 1 \in DOMAIN issues
    /\ <<1, 1>> \in Range(summary.requests)
    /\ <<LastDate, 1>> \in Range(summary.requests)
    /\ summary.complete

\* ------------------------------------------------------------------------
\* Properties of the week endpoint (checked under SpecWeek and SpecWeekLive)
\* ------------------------------------------------------------------------
WeekComplete ==
    \E w \in DOMAIN weeks : weeks[w].priming_complete

\* C16: if requests for the week that ask for priming keep arriving and
\* every priming invocation gets to make at least one remote call before
\* its budget runs out, the week's row eventually has priming_complete =
\* true.
C16_WeekConverges == <>WeekComplete

C16_Witness ==
    /\ WeekComplete
    /\ wreq.outcome = "complete"
    /\ summary.chained
    /\ Len(summary.chain_prefix) >= 2
    /\ summary.arg_start_page = 2

\* a week request has been received
Requested == wreq.at /= None

\* a week request has been answered
Answered == wreq.pc = "idle" /\ wreq.outcome /= "none"

\* the row the request found asks for priming
NeedsPriming ==
    \/ ~wreq.existed
    \/ wreq.at > wreq.before.cache_expires
    \/ wreq.before.api_fetch_failed
    \/ ~wreq.before.priming_complete

\* the request left the week's row as it found it
RowUntouched ==
    IF wreq.existed
    THEN /\ wreq.week_start \in DOMAIN weeks
         /\ weeks[wreq.week_start] = wreq.before
    ELSE wreq.week_start \notin DOMAIN weeks

\* C17 as stated: every week request invokes priming if and only if the
\* week has no row, or its row is expired, or has fetch_failed = true, or
\* has priming_complete = false.
C17_EveryRequestPrimesIffNeeded ==
    Requested => (wreq.attempted <=> NeedsPriming)

\* C17 amended: a week request whose prime parameter is not "false" (the
\* default) invokes priming if and only if the week has no row, or its row
\* is expired, or has fetch_failed = true, or has priming_complete =
\* false; a request with prime=false never invokes priming.  A request
\* that does not invoke priming, as one that finds a complete, not failed,
\* not expired row, makes no remote call and leaves the row as it is.
C17_PrimesIffNeeded ==
    Requested =>
        /\ wreq.prime_param => (wreq.attempted <=> NeedsPriming)
        /\ ~wreq.prime_param => ~wreq.attempted
        /\ (Answered /\ ~wreq.attempted) =>
              /\ wreq.outcome \in {"skipped", "disabled"}
              /\ wreq.calls = 0
              /\ RowUntouched

C17_Witness ==
    /\ Answered
    /\ wreq.prime_param
    /\ wreq.existed
    /\ wreq.before.priming_complete
    /\ wreq.at > wreq.before.last_updated
    /\ wreq.outcome = "skipped"
    /\ Len(summary.requests) >= 2

\* the priming call of the request returned its summary
PrimedNormally == Answered /\ wreq.outcome \in {"complete", "suspended"}

WeekIssueIds ==
    {i \in DOMAIN issues :
        /\ issues[i].date >= wreq.week_start
        /\ issues[i].date <= wreq.end_date}

IdleParked == [prime |-> IdlePrime, summary |-> NoSummary,
               wreq |-> IdleWeekRequest]

\* the scheduler lets the other request run: the registers of the running
\* request are parked and those of the parked one loaded; the tables are
\* shared
Switch ==
    /\ parked' = [prime |-> prime, summary |-> summary, wreq |-> wreq]
    /\ prime' = parked.prime
    /\ summary' = parked.summary
    /\ wreq' = parked.wreq
    /\ UNCHANGED <<cv, now, volumes, publishers, issues, catalog, ret,
                   invocations, weeks, errors, asked, run, db>>

\* the remote requests of the running request are added to the history
LogAsked == asked' = asked \cup Range(prime'.requests)

RaceRequest ==
    \E target_date \in Dates, service_ok \in BOOLEAN :
        WeekRequest(target_date, TRUE, service_ok, DefaultLimit)

\* the budget tests of a request read a time within the budget or one over
\* it
RaceElapsedValues == {0, BudgetSeconds + 1}

RacePrimePage ==
    \E elapsed \in RaceElapsedValues, outcome \in AdapterOutcomes :
        PrimePage(elapsed, outcome)

RacePrimeDayEnd == \E elapsed \in RaceElapsedValues : PrimeDayEnd(elapsed)

InitRace ==
    /\ cv = TRUE
    /\ now = 0
    /\ volumes = <<>>
    /\ publishers = <<>>
    /\ issues = <<>>
    /\ catalog \in PrimeCatalogs
    /\ prime = IdlePrime
    /\ summary = NoSummary
    /\ invocations = 0
    /\ weeks = <<>>
    /\ wreq = IdleWeekRequest
    /\ errors = NoErrors
    /\ parked = IdleParked
    /\ asked = {}
    /\ run = IdleRun
    /\ db = EmptyDb
    /\ ret = Result("init", None, FALSE, FALSE, NoRecord, "none", NoRecord,
                    0, 0, 0)

NextRace ==
    \/ Invoke /\ RaceRequest /\ UNCHANGED <<errors, app>>
    \/ /\ RacePrimePage
       /\ LogAsked
       /\ UNCHANGED <<invocations, weeks, wreq, errors, parked, run, db>>
    \/ RacePrimeDayEnd /\ UNCHANGED <<invocations, weeks, wreq, errors, app>>
    \/ WeekPrimeReturn /\ UNCHANGED <<invocations, errors, app>>
    \/ Switch

\* at most MaxInvocations week requests with priming on, two of them at a
\* time in any interleaving of their steps, against a configured service
SpecRace == InitRace /\ [][NextRace]_vars

\* the requests that come before (date, page) in the walk of the week, as
\* far as a checkpoint vouches for them: the first page of every earlier
\* day and the earlier pages of the day
Earlier(week_start, date, page) ==
    {<<d, 1>> : d \in week_start .. date - 1}
        \cup {<<date, q>> : q \in 1 .. page - 1}

NextIssues ==
    \/ /\ DoGetVolume(RequestedVolumeIds)
       /\ UNCHANGED <<invocations, weeks, wreq, errors, app>>
    \/ DoGetVolumeIssues /\ UNCHANGED <<invocations, weeks, wreq, errors, app>>
    \/ WeekTick /\ UNCHANGED <<invocations, weeks, wreq, errors, app>>

\* get_volume and get_volume_issues, called any number of times, with the
\* clock
SpecIssues == Init /\ [][NextIssues]_vars

IsGetVolumeIssues == ret.op = "get_volume_issues"

\* the fields of an issue row that are not cache timestamps
IssueFields(row) ==
    [cv_id |-> row.cv_id, name |-> row.name, number |-> row.number,
     volume |-> row.volume, date |-> row.date,
     image_medium_url |-> row.image_medium_url]

SameIssues(a, b) ==
    /\ DOMAIN a = DOMAIN b
    /\ \A i \in DOMAIN a : IssueFields(a[i]) = IssueFields(b[i])

\* C22: a get_volume_issues call that follows a get_volume_issues call for
\* the same volume, with the upstream unchanged and neither call failing,
\* leaves the cached issues as the first call left them: the same rows,
\* one per external id, with the same fields apart from the cache
\* timestamps.
C22_SecondIngestionChangesNothing ==
    [][(/\ IsGetVolumeIssues
        /\ ret.outcome = "ok"
        /\ ret'.op = "get_volume_issues"
        /\ ret'.outcome = "ok"
        /\ ret'.volume_id = ret.volume_id) =>
          /\ SameIssues(issues, issues')
          /\ ret'.items = ret.items
          /\ \A i, j \in 1 .. Len(ret'.items) :
                ret'.items[i] = ret'.items[j] => i = j]_vars

C22_Witness ==
    /\ IsGetVolumeIssues
    /\ ret.again
    /\ ret.at > 0
    /\ Len(ret.items) >= 2
    /\ \E i \in DOMAIN issues :
          /\ issues[i].last_updated = ret.at
          /\ issues[i].volume = ret.volume_id

\* the number of pages requested by a loop that stops at the first page
\* with fewer records than a full page, or at the cap
RECURSIVE PagesUntilShortPage(_, _, _)
PagesUntilShortPage(cat, volume_id, page) ==
    IF page >= MaxPagesPerVolume
          \/ Len(ListIssuesByVolume(cat, volume_id, page)) < PageSize
    THEN page
    ELSE PagesUntilShortPage(cat, volume_id, page + 1)

\* C23: get_volume_issues requests the pages 1, 2, ... until a page comes
\* back with fewer records than a full page or the cap of pages is
\* reached, and stops at the first such page, whatever the volume's
\* cached issue count.
C23_PagesUntilShortPage ==
    (IsGetVolumeIssues /\ ret.outcome = "ok") =>
        ret.calls = PagesUntilShortPage(catalog, ret.volume_id, 1)

\* ------------------------------------------------------------------------
\* The order of the requests of range priming (checked under SpecPrime)
\* ------------------------------------------------------------------------
\* requests in ascending date order, the pages of a day in ascending order
\* without a gap, every day after the first one begun at page 1
InWalkOrder(requests) ==
    \A i \in 1 .. Len(requests) - 1 :
        \/ /\ requests[i + 1][1] = requests[i][1]
           /\ requests[i + 1][2] = requests[i][2] + 1
        \/ /\ requests[i + 1][1] > requests[i][1]
           /\ requests[i + 1][2] = 1

\* the first request of h is for the resumed page when it is made on the
\* first day, and for page 1 when the first day got no request
StartsAtResumedPage(h) ==
    Len(h.requests) > 0 =>
        /\ h.requests[1][1] >= Cursor(h)
        /\ h.requests[1][2] = IF h.requests[1][1] = Cursor(h)
                              THEN Max(1, h.arg_start_page) ELSE 1

\* C24: within one priming invocation the remote requests are made in
\* strictly ascending date order, and for each day in strictly ascending
\* page order, starting at the resumed page on the first day and at page 1
\* on every later day.
C24_RequestsInWalkOrder ==
    /\ prime.pc /= "idle" =>
          InWalkOrder(prime.requests) /\ StartsAtResumedPage(prime)
    /\ (summary.returned /\ summary.configured) =>
          InWalkOrder(summary.requests) /\ StartsAtResumedPage(summary)

C24_Witness ==
    /\ summary.returned
    /\ summary.arg_resume_date = 1
    /\ summary.arg_start_page = 2
    /\ Len(summary.requests) >= 3
    /\ summary.requests[1] = <<1, 2>>
    /\ summary.requests[2] = <<1, 3>>
    /\ summary.requests[3] = <<2, 1>>

\* ------------------------------------------------------------------------
\* Issue fields derived from the upstream record (_build_issue_defaults)
\* ------------------------------------------------------------------------
IngestCatalogs == {CatalogD}

\* the empty store in front of the catalogue whose issues differ in their
\* dates and images
InitIngest ==
    /\ cv \in BOOLEAN
    /\ now = 0
    /\ volumes = <<>>
    /\ publishers = <<>>
    /\ issues = <<>>
    /\ catalog \in IngestCatalogs
    /\ prime = IdlePrime
    /\ summary = NoSummary
    /\ invocations = 0
    /\ weeks = <<>>
    /\ wreq = IdleWeekRequest
    /\ errors = NoErrors
    /\ parked = NoParked
    /\ asked = {}
    /\ run = IdleRun
    /\ db = EmptyDb
    /\ ret = Result("init", None, FALSE, FALSE, NoRecord, "none", NoRecord,
                    0, 0, 0)

\* volume ingestion and range priming over that catalogue, at one instant
NextIngest ==
    \/ /\ Invoke /\ DoGetVolume(RequestedVolumeIds)
       /\ UNCHANGED <<weeks, wreq, errors, app>>
    \/ Invoke /\ DoGetVolumeIssues /\ UNCHANGED <<weeks, wreq, errors, app>>
    \/ /\ Invoke /\ DoPrimeFromCheckpoint
       /\ UNCHANGED <<weeks, wreq, errors, app>>
    \/ DoPrimePage /\ UNCHANGED <<invocations, weeks, wreq, errors, app>>
    \/ DoPrimeDayEnd /\ UNCHANGED <<invocations, weeks, wreq, errors, app>>
    \/ PrimeReturn /\ UNCHANGED <<invocations, weeks, wreq, errors, app>>

SpecIngest == InitIngest /\ [][NextIngest]_vars

\* the upstream record a cached issue was built from
UpstreamIssue(id) == catalog[CHOOSE j \in 1 .. Len(catalog) : catalog[j].id = id]

HasDate(raw, form) == raw /= None /\ form /= "junk"

\* C25: every cached issue carries the store date of its upstream record
\* when that record has one, else its cover date, and no date only when
\* the record has neither; this holds for the issues written by volume
\* ingestion and for those written by range priming
C25_CanonicalDate ==
    \A id \in DOMAIN issues :
        LET p == UpstreamIssue(id)
        IN IF HasDate(p.store_date, p.store_form)
           THEN issues[id].date = p.store_date
           ELSE IF HasDate(p.cover_date, p.cover_form)
           THEN issues[id].date = p.cover_date
           ELSE issues[id].date = None

\* issues 1 and 2 came in by volume ingestion (no store date: the cover
\* date, or nothing), issues 5 and 6 by priming day 2
C25_Witness ==
    /\ catalog = CatalogD
    /\ {1, 2, 5, 6} \subseteq DOMAIN issues
    /\ issues[1].date = 1
    /\ issues[2].date = None
    /\ issues[5].date = 2
    /\ issues[6].date = 1

ImagePreference ==
    <<"medium_url", "super_url", "screen_url", "small_url", "original_url",
      "thumbnail", "tiny_url", "icon_url">>

Populated(img) ==
    {k \in 1 .. Len(ImagePreference) :
        img.present /\ TruthyStr(img[ImagePreference[k]])}

\* C26: the medium image of every cached issue is the first populated
\* variant of its upstream record in the order medium, super, screen,
\* small, original, thumbnail, tiny, icon, and it is unset when no variant
\* is populated
C26_BestMediumImage ==
    \A id \in DOMAIN issues :
        LET img == UpstreamIssue(id).image
            pop == Populated(img)
        IN IF pop = {}
           THEN ~TruthyStr(issues[id].image_medium_url)
           ELSE LET first == CHOOSE k \in pop : \A m \in pop : k <= m
                IN issues[id].image_medium_url = img[ImagePreference[first]]

\* issue 1 has only the super and icon variants, issue 4 the super and
\* screen variants, issue 2 no image
C26_Witness ==
    /\ catalog = CatalogD
    /\ {1, 2, 4} \subseteq DOMAIN issues
    /\ issues[1].image_medium_url = "super"
    /\ issues[4].image_medium_url = "super"
    /\ ~TruthyStr(issues[2].image_medium_url)

\* ------------------------------------------------------------------------
\* The pulls app: tables
\* ------------------------------------------------------------------------
Users == {1, 2}

\* PullList(owner=...)
PullListRow(owner) == [owner |-> owner]

\* Pull(pull_list=..., owner=..., series_id=..., read=[...]); owner_id is
\* None for a Pull created before the owner column existed
PullRow(pull_list, owner_id, series_id, read) ==
    [pull_list |-> pull_list, owner_id |-> owner_id, series_id |-> series_id,
     read |-> read]

\* "Pull.objects.values_list('series_id', flat=True).distinct()"
PulledSeries(d) == {d.pulls[k].series_id : k \in DOMAIN d.pulls}

\* the elements of a set of integers in ascending order
RECURSIVE Ascending(_)
Ascending(S) ==
    IF S = {} THEN <<>>
    ELSE LET least == CHOOSE x \in S : \A y \in S : x <= y
         IN <<least>> \o Ascending(S \ {least})

\* a queryset slice "[:n]"
FirstN(seq, n) == SubSeq(seq, 1, Min(Max(n, 0), Len(seq)))

\* ------------------------------------------------------------------------
\* The primecache command
\* ------------------------------------------------------------------------
\* the largest --limit of a run
MaxRunLimit == 3

RunLimits == 0 .. MaxRunLimit

\* timezone.now().year
CurrentYear == 2025

\* what the remote source answers to the volume requests of a run: an old
\* series, a recent series, and a volume without publisher
RunPayloads ==
    { [name |-> "Saga", start_year |-> 2012, issue_count |-> 3,
       publisher |-> [id |-> 10, name |-> "Image"]],
      [name |-> "Absolute", start_year |-> 2024, issue_count |-> 3,
       publisher |-> [id |-> 10, name |-> "Image"]],
      [name |-> "Saga", start_year |-> 2012, issue_count |-> 3,
       publisher |-> NoPublisherPayload] }

\* _get_missing_volumes: the pulled series without a volume row
MissingVolumes(d, vols) == Ascending(PulledSeries(d) \ DOMAIN vols)

\* the volume ids of a set in the order of an order_by clause, given as the
\* pairs <<a, b>> with a at or before b: the k-th is the one with k ids at
\* or before it
OrderedVolumes(ids, before) ==
    [k \in 1 .. Cardinality(ids) |->
        CHOOSE a \in ids :
            Cardinality({b \in ids : <<b, a>> \in before}) = k]

\* _get_expired_volumes(force_failed)
ExpiredVolumes(vols, force_failed, t) ==
    LET query(v) ==
            /\ vols[v].cache_expires < t
            /\ \/ force_failed
               \/ ~vols[v].api_fetch_failed
               \/ /\ vols[v].api_last_failure /= None
                  /\ vols[v].api_last_failure < t - Hours(24)
        known(v) == vols[v].start_year /= None
        recent_series(v) ==
            /\ known(v)
            /\ vols[v].start_year >= CurrentYear - 3
            /\ vols[v].last_updated < t - Days(7)
        older_series(v) ==
            /\ known(v)
            /\ vols[v].start_year >= CurrentYear - 10
            /\ vols[v].start_year < CurrentYear - 3
            /\ vols[v].last_updated < t - Days(14)
        very_old_series(v) ==
            /\ known(v)
            /\ vols[v].start_year < CurrentYear - 10
            /\ vols[v].last_updated < t - Days(30)
        \* order_by('-start_year', 'last_updated')
        recent_first ==
            {p \in (DOMAIN vols) \X (DOMAIN vols) :
                \/ vols[p[1]].start_year > vols[p[2]].start_year
                \/ /\ vols[p[1]].start_year = vols[p[2]].start_year
                   /\ \/ vols[p[1]].last_updated < vols[p[2]].last_updated
                      \/ /\ vols[p[1]].last_updated
                                = vols[p[2]].last_updated
                         /\ p[1] <= p[2]}
        \* order_by('last_updated')
        stalest_first ==
            {p \in (DOMAIN vols) \X (DOMAIN vols) :
                \/ vols[p[1]].last_updated < vols[p[2]].last_updated
                \/ /\ vols[p[1]].last_updated = vols[p[2]].last_updated
                   /\ p[1] <= p[2]}
        recent_volumes ==
            FirstN(OrderedVolumes({v \in DOMAIN vols :
                                      query(v) /\ recent_series(v)},
                                  recent_first),
                   10)
        remaining_slots == 20 - Len(recent_volumes)
    IN IF remaining_slots > 0
       THEN recent_volumes \o
            FirstN(OrderedVolumes({v \in DOMAIN vols :
                                      /\ query(v)
                                      /\ \/ older_series(v)
                                         \/ very_old_series(v)},
                                  stalest_first),
                   remaining_slots)
       ELSE recent_volumes

\* "ComicVineIssue.objects.filter(volume=volume).count()"
IssueCount(iss, v) == Cardinality({i \in DOMAIN iss : iss[i].volume = v})

\* the two "for volume in ..." loops of _get_volumes_needing_issues: the
\* volumes of the listing that pass the test, up to max_volumes of them
RECURSIVE TakeNeeding(_, _, _, _, _)
TakeNeeding(listing, i, taken, max_volumes, needing) ==
    IF i > Len(listing) \/ Len(taken) >= max_volumes THEN taken
    ELSE TakeNeeding(listing, i + 1,
                     IF listing[i] \in needing
                     THEN Append(taken, listing[i])
                     ELSE taken,
                     max_volumes, needing)

\* _get_volumes_needing_issues(max_volumes)
VolumesNeedingIssues(d, vols, iss, remaining_requests) ==
    LET max_volumes == Min(remaining_requests, 50)
        volumes_with_pulls == DOMAIN vols \cap PulledSeries(d)
        \* order_by('-start_year')
        newest_first ==
            {p \in (DOMAIN vols) \X (DOMAIN vols) :
                \/ vols[p[1]].start_year > vols[p[2]].start_year
                \/ /\ vols[p[1]].start_year = vols[p[2]].start_year
                   /\ p[1] <= p[2]}
        recent_volumes ==
            OrderedVolumes({v \in volumes_with_pulls :
                               /\ vols[v].start_year /= None
                               /\ vols[v].start_year >= CurrentYear - 5},
                           newest_first)
        older_volumes ==
            OrderedVolumes({v \in volumes_with_pulls :
                               /\ vols[v].start_year /= None
                               /\ vols[v].start_year < CurrentYear - 5},
                           newest_first)
        recent_needs ==
            {v \in volumes_with_pulls :
                \/ IssueCount(iss, v) = 0
                \/ IssueCount(iss, v) < vols[v].count_of_issues}
        older_needs ==
            {v \in volumes_with_pulls :
                \/ IssueCount(iss, v) = 0
                \/ IssueCount(iss, v) % 50 = 0 /\ IssueCount(iss, v) > 0}
        first == TakeNeeding(recent_volumes, 1, <<>>, max_volumes,
                             recent_needs)
    IN IF Len(first) < max_volumes
       THEN TakeNeeding(older_volumes, 1, first, max_volumes, older_needs)
       ELSE first

\* handle, up to the first loop: requests_made is the command's counter,
\* remote counts the requests that reach the remote source
PrimecacheStart(limit, dry_run, force_volumes) ==
    /\ run.pc \in {"idle", "done"}
    /\ prime.pc = "idle"
    /\ run' = [op |-> "primecache", pc |-> "missing", limit |-> limit,
               dry_run |-> dry_run, force_volumes |-> force_volumes,
               requests_made |-> 0, remote |-> 0,
               todo |-> MissingVolumes(db, volumes)]
    /\ UNCHANGED <<cv, now, volumes, publishers, issues, catalog, prime,
                   summary, ret, weeks, wreq, errors, parked, asked, db>>

\* "if requests_made >= limit: break", or the list is used up
LoopEnds == run.todo = <<>> \/ run.requests_made >= run.limit

\* one more call counted; calls is what the call asked of the remote
\* source
Counted(calls) ==
    [run EXCEPT !.requests_made = @ + 1, !.remote = @ + calls,
                !.todo = Tail(@)]

\* one turn of a volume loop: a dry run only counts; otherwise get_volume is
\* called, and counted whether it raises or not
PrimecacheGetVolume(pc, force_refresh, outcome, payload) ==
    /\ run.pc = pc
    /\ ~LoopEnds
    /\ IF run.dry_run
       THEN /\ run' = Counted(0)
            /\ UNCHANGED <<cv, now, volumes, publishers, issues, catalog,
                           prime, summary, ret>>
       ELSE /\ GetVolume(Head(run.todo), force_refresh, outcome, payload)
            /\ run' = Counted(ret'.calls)
    /\ UNCHANGED <<weeks, wreq, errors, parked, asked, db>>

\* Priority 1: "for volume_id in missing_volumes"
PrimecacheMissing ==
    \E outcome \in AdapterOutcomes, payload \in RunPayloads :
        PrimecacheGetVolume("missing", run.force_volumes, outcome, payload)

\* Priority 2: "for volume in expired_volumes"
PrimecacheExpired ==
    \E outcome \in AdapterOutcomes, payload \in RunPayloads :
        PrimecacheGetVolume("expired", TRUE, outcome, payload)

\* Priority 3: "for volume in volumes_needing_issues"
PrimecacheIssues ==
    \E fail_page \in 0 .. MaxPagesPerVolume :
        /\ run.pc = "issues"
        /\ ~LoopEnds
        /\ IF run.dry_run
           THEN /\ run' = Counted(0)
                /\ UNCHANGED <<cv, now, volumes, publishers, issues, catalog,
                               prime, summary, ret>>
           ELSE /\ GetVolumeIssues(Head(run.todo), fail_page)
                /\ run' = Counted(ret'.calls)
        /\ UNCHANGED <<weeks, wreq, errors, parked, asked, db>>

\* the end of a loop: the list of the next loop is read, or the summary is
\* written
PrimecacheAdvance ==
    /\ run.pc \in {"missing", "expired", "issues"}
    /\ LoopEnds
    /\ run' = IF run.pc = "missing"
              THEN [run EXCEPT !.pc = "expired",
                               !.todo = ExpiredVolumes(volumes,
                                                       run.force_volumes,
                                                       now)]
              ELSE IF run.pc = "expired"
              THEN [run EXCEPT !.pc = "issues",
                               !.todo = VolumesNeedingIssues(
                                            db, volumes, issues,
                                            run.limit - run.requests_made)]
              ELSE [run EXCEPT !.pc = "done", !.todo = <<>>]
    /\ UNCHANGED <<cv, now, volumes, publishers, issues, catalog, prime,
                   summary, ret, weeks, wreq, errors, parked, asked, db>>

\* the time between two runs of the command
RunSleeps == {Days(7) + 1, Days(30) + 1}

TimePasses ==
    \E sleep \in RunSleeps :
        /\ now <= MaxNow
        /\ run.pc \in {"idle", "done"}
        /\ prime.pc = "idle"
        /\ now' = now + sleep
        /\ UNCHANGED <<cv, volumes, publishers, issues, catalog, prime,
                       summary, ret>>

\* Pulls of user 1 for the series of a set, in one pull list
PullsFor(series) ==
    [pull_lists |-> (1 :> PullListRow(1)),
     pulls |-> [k \in series |-> PullRow(1, 1, k, <<>>)],
     mupulls |-> <<>>]

RunDbs == {PullsFor({1}), PullsFor({1, 2})}

\* the command runs against the empty cache of a site whose users pull
\* one or two series
InitPrimecache ==
    /\ cv = TRUE
    /\ now = 0
    /\ volumes = <<>>
    /\ publishers = <<>>
    /\ issues = <<>>
    /\ catalog = CatalogA
    /\ prime = IdlePrime
    /\ summary = NoSummary
    /\ invocations = 0
    /\ weeks = <<>>
    /\ wreq = IdleWeekRequest
    /\ errors = NoErrors
    /\ parked = NoParked
    /\ asked = {}
    /\ run = IdleRun
    /\ db \in RunDbs
    /\ ret = Result("init", None, FALSE, FALSE, NoRecord, "none", NoRecord,
                    0, 0, 0)

DoPrimecacheStart ==
    \E limit \in RunLimits, dry_run \in BOOLEAN, force_volumes \in BOOLEAN :
        PrimecacheStart(limit, dry_run, force_volumes)

NextPrimecache ==
    \/ Invoke /\ DoPrimecacheStart
    \/ PrimecacheMissing /\ UNCHANGED invocations
    \/ PrimecacheExpired /\ UNCHANGED invocations
    \/ PrimecacheIssues /\ UNCHANGED invocations
    \/ PrimecacheAdvance /\ UNCHANGED invocations
    \/ /\ TimePasses
       /\ UNCHANGED <<invocations, weeks, wreq, errors, app>>

\* at most MaxInvocations runs of the command, with time passing between
\* them
SpecPrimecache == InitPrimecache /\ [][NextPrimecache]_vars

\* C27: a finished run that was not a dry run made at most as many remote
\* requests as its limit, and the number it reports is the number of remote
\* requests it made
C27_RequestsWithinLimit ==
    (run.op = "primecache" /\ run.pc = "done" /\ ~run.dry_run)
        => /\ run.remote <= run.limit
           /\ run.requests_made = run.remote

\* ------------------------------------------------------------------------
\* The pulls app: PullViewSet
\* ------------------------------------------------------------------------
\* the most Pulls, and the most MUPulls, of a behaviour
MaxPulls == 2

PullIds == 1 .. MaxPulls

\* the migrations applied to the pulls table: before 0017 a Pull has no
\* owner, from 0018 on (owner, series_id) is unique
Schemas == {"0016", "0017", "0018"}

\* the pull lists of two users, one each
TwoPullLists ==
    [pull_lists |-> (1 :> PullListRow(1)) @@ (2 :> PullListRow(2)),
     pulls |-> <<>>, mupulls |-> <<>>]

\* "pull_list__owner": the owner of the pull list of a Pull or MUPull
ListOwner(d, row) == d.pull_lists[row.pull_list].owner

\* a request or command of the pulls app that leaves the ComicVine cache
\* and the week endpoint alone
AppOnly ==
    UNCHANGED <<cv, now, volumes, publishers, issues, catalog, prime,
                summary, ret, invocations, weeks, wreq, errors, parked,
                asked>>

\* PullViewSet.create with one Pull: pull_list_id is any pull list, the
\* owner is the requesting user; the new id is a fresh UUID.  Under schema
\* 0018 a second Pull of the same owner and series is refused by the
\* database.
CreatePull(user, id, pull_list, series_id, read, schema) ==
    LET duplicate == \E k \in DOMAIN db.pulls :
                         /\ db.pulls[k].owner_id = user
                         /\ db.pulls[k].series_id = series_id
        row == PullRow(pull_list, IF schema = "0016" THEN None ELSE user,
                       series_id, read)
        created == pull_list \in DOMAIN db.pull_lists
                   /\ ~(schema = "0018" /\ duplicate)
    IN /\ id \notin DOMAIN db.pulls
       /\ run.pc \in {"idle", "done"}
       /\ db' = IF created
                THEN [db EXCEPT !.pulls = PutRow(@, id, row)]
                ELSE db
       /\ run' = [op |-> "create_pull", pc |-> "idle", user |-> user,
                  created |-> created]
       /\ AppOnly

\* list(set): the elements of a set as a list
ListOfSet(S) == Ascending(S)

\* PullViewSet.mark_read: get_object answers 404 for a Pull of another
\* user's pull list
MarkRead(user, id, issue_id) ==
    LET found == id \in DOMAIN db.pulls /\ ListOwner(db, db.pulls[id]) = user
        current == Range(db.pulls[id].read)
    IN /\ run.pc \in {"idle", "done"}
       /\ db' = IF found /\ issue_id \notin current
                THEN [db EXCEPT !.pulls[id].read =
                                    ListOfSet(current \cup {issue_id})]
                ELSE db
       /\ run' = [op |-> "mark_read", pc |-> "idle", user |-> user,
                  found |-> found]
       /\ AppOnly

\* the values of the ordering query parameter; NoneStr: no parameter
OrderingParams == {NoneStr, "", "date", "-date", "name"}

\* ALLOWED_UNREAD_ORDERINGS.get(ordering_param or "date", ("-date",))
OrderTuple(ordering_param) ==
    LET key == IF TruthyStr(ordering_param) THEN ordering_param ELSE "date"
    IN IF key = "date" THEN "date"
       ELSE IF key = "-date" THEN "-date"
       ELSE "-date"

\* order_by("date") and order_by("-date") as the database sorts them: a
\* missing date is the largest value; rows with equal dates by id
DateBefore(iss, order, a, b) ==
    LET da == iss[a].date
        db_ == iss[b].date
        less(x, y) == x /= None /\ (y = None \/ x < y)
    IN \/ da = db_ /\ a <= b
       \/ da /= db_ /\ IF order = "date" THEN less(da, db_) ELSE less(db_, da)

\* the issues a user has not read: for each Pull of the user's pull lists,
\* the issues of its series that are not in its read array
UnreadIds(d, iss, user) ==
    {i \in DOMAIN iss :
        \E k \in DOMAIN d.pulls :
            /\ ListOwner(d, d.pulls[k]) = user
            /\ iss[i].volume = d.pulls[k].series_id
            /\ iss[i].cv_id \notin Range(d.pulls[k].read)}

\* the page size of StandardResultsPagination
ResultsPageSize == 50

\* PullViewSet.unread_issues without the since and series_id filters: the
\* ids of the first page of results
UnreadIssues(d, iss, user, ordering_param) ==
    LET ids == UnreadIds(d, iss, user)
        ordered == [k \in 1 .. Cardinality(ids) |->
                       CHOOSE a \in ids :
                           Cardinality({b \in ids :
                               DateBefore(iss, OrderTuple(ordering_param),
                                          b, a)}) = k]
    IN SubSeq(ordered, 1, Min(ResultsPageSize, Len(ordered)))

UnreadIssuesRequest(user, ordering_param) ==
    /\ run.pc \in {"idle", "done"}
    /\ run' = [op |-> "unread_issues", pc |-> "idle", user |-> user,
               ordering |-> ordering_param,
               results |-> UnreadIssues(db, issues, user, ordering_param)]
    /\ UNCHANGED db
    /\ AppOnly

\* the cached issues the unread endpoint reads come from the ingestion of
\* volume 1 of the catalogue with the mixed dates
Ingest ==
    /\ run.pc \in {"idle", "done"}
    /\ \/ \E volume_id \in RequestedVolumeIds, payload \in RunPayloads :
              /\ payload.publisher.id /= None
              /\ GetVolume(volume_id, FALSE, "ok", payload)
       \/ \E volume_id \in RequestedVolumeIds :
              GetVolumeIssues(volume_id, 0)
    /\ run' = IdleRun
    /\ UNCHANGED <<invocations, weeks, wreq, errors, parked, asked, db>>

InitUnread ==
    /\ cv = TRUE
    /\ now = 0
    /\ volumes = <<>>
    /\ publishers = <<>>
    /\ issues = <<>>
    /\ catalog = CatalogD
    /\ prime = IdlePrime
    /\ summary = NoSummary
    /\ invocations = 0
    /\ weeks = <<>>
    /\ wreq = IdleWeekRequest
    /\ errors = NoErrors
    /\ parked = NoParked
    /\ asked = {}
    /\ run = IdleRun
    /\ db = TwoPullLists
    /\ ret = Result("init", None, FALSE, FALSE, NoRecord, "none", NoRecord,
                    0, 0, 0)

\* the issue ids a user marks as read
ReadIds == {1, 3}

NextUnread ==
    \/ Ingest
    \/ \E user \in Users, pull_list \in Users,
          series_id \in RequestedVolumeIds :
           CreatePull(user, Cardinality(DOMAIN db.pulls) + 1, pull_list,
                      series_id, <<>>, "0018")
    \/ \E user \in Users, id \in PullIds, issue_id \in ReadIds :
           MarkRead(user, id, issue_id)
    \/ \E user \in Users, ordering_param \in OrderingParams :
           UnreadIssuesRequest(user, ordering_param)

SpecUnread == InitUnread /\ [][NextUnread]_vars

\* C28: the answer to an unread_issues request without ordering parameter
\* holds the unread issues of the user's pull lists, and no issue in it is
\* followed by an issue with a later date
C28_UnreadNewestFirst ==
    (run.op = "unread_issues" /\ run.ordering = NoneStr)
        => /\ Range(run.results) = UnreadIds(db, issues, run.user)
           /\ \A a, b \in 1 .. Len(run.results) :
                  (/\ a < b
                   /\ issues[run.results[a]].date /= None
                   /\ issues[run.results[b]].date /= None)
                      => issues[run.results[a]].date
                             >= issues[run.results[b]].date

\* ------------------------------------------------------------------------
\* The pulls app: MUPullViewSet
\* ------------------------------------------------------------------------
\* MUPull(pull_list=..., series_id=...); created_by is not a column: it
\* writes down whose request created the row
MUPullRow(pull_list, series_id, user) ==
    [pull_list |-> pull_list, series_id |-> series_id, created_by |-> user]

\* MUPullViewSet.create with one MUPull: the serializer accepts the id of
\* any pull list (queryset=PullList.objects.all()), and IsPullListOwner has
\* no has_permission, so nothing compares the pull list's owner with the
\* requesting user
CreateMUPull(user, id, pull_list, series_id) ==
    /\ id \notin DOMAIN db.mupulls
    /\ pull_list \in DOMAIN db.pull_lists
    /\ db' = [db EXCEPT !.mupulls =
                            PutRow(@, id,
                                   MUPullRow(pull_list, series_id, user))]
    /\ run' = [op |-> "create_mupull", pc |-> "idle", user |-> user]
    /\ AppOnly

\* IsOwnerFilterBackend.filter_queryset with owner_lookup_field
\* "pull_list__owner": queryset.filter(pull_list__owner=request.user.id)
FilterByOwner(d, table, user) ==
    {k \in DOMAIN table : ListOwner(d, table[k]) = user}

\* MUPullViewSet.list
ListMUPulls(user) ==
    /\ run' = [op |-> "list_mupulls", pc |-> "idle", user |-> user,
               results |-> FilterByOwner(db, db.mupulls, user)]
    /\ UNCHANGED db
    /\ AppOnly

\* the table without a row
DeleteRow(table, key) == [k \in DOMAIN table \ {key} |-> table[k]]

\* MUPullViewSet.destroy: get_object looks the row up in the filtered
\* queryset and IsPullListOwner.has_object_permission checks the owner
DestroyMUPull(user, id) ==
    LET found == id \in FilterByOwner(db, db.mupulls, user)
    IN /\ id \in DOMAIN db.mupulls
       /\ db' = IF found
                THEN [db EXCEPT !.mupulls = DeleteRow(@, id)]
                ELSE db
       /\ run' = [op |-> "destroy_mupull", pc |-> "idle", user |-> user]
       /\ AppOnly

InitMUPulls ==
    /\ cv = TRUE
    /\ now = 0
    /\ volumes = <<>>
    /\ publishers = <<>>
    /\ issues = <<>>
    /\ catalog = CatalogA
    /\ prime = IdlePrime
    /\ summary = NoSummary
    /\ invocations = 0
    /\ weeks = <<>>
    /\ wreq = IdleWeekRequest
    /\ errors = NoErrors
    /\ parked = NoParked
    /\ asked = {}
    /\ run = IdleRun
    /\ db = TwoPullLists
    /\ ret = Result("init", None, FALSE, FALSE, NoRecord, "none", NoRecord,
                    0, 0, 0)

NextMUPulls ==
    \/ \E user \in Users, id \in PullIds, pull_list \in Users,
          series_id \in VolumeIds :
           CreateMUPull(user, id, pull_list, series_id)
    \/ \E user \in Users : ListMUPulls(user)
    \/ \E user \in Users, id \in PullIds : DestroyMUPull(user, id)

SpecMUPulls == InitMUPulls /\ [][NextMUPulls]_vars

\* C29: the answer to a MUPull list request holds exactly the MUPulls of
\* the pull lists the requesting user owns: every MUPull that user created
\* is in it, and no MUPull of another user's pull list is
C29_ListsOwnMUPulls ==
    run.op = "list_mupulls"
        => /\ run.results =
                  {k \in DOMAIN db.mupulls :
                      db.pull_lists[db.mupulls[k].pull_list].owner
                          = run.user}
           /\ \A k \in DOMAIN db.mupulls :
                  db.mupulls[k].created_by = run.user => k \in run.results
           /\ \A k \in run.results :
                  db.pull_lists[db.mupulls[k].pull_list].owner = run.user

\* ------------------------------------------------------------------------
\* The dedupe_pulls command and the dedupe_pulls step of migration 0017
\* ------------------------------------------------------------------------
\* "p.owner_id or getattr(getattr(p, 'pull_list', None), 'owner_id', None)"
OwnerOf(d, p) == IF p.owner_id /= None THEN p.owner_id ELSE ListOwner(d, p)

\* the key of the group of a Pull
GroupKey(d, p) == <<OwnerOf(d, p), p.series_id>>

\* the ids of the Pulls of the group of Pull k
GroupOf(d, k) ==
    {j \in DOMAIN d.pulls : GroupKey(d, d.pulls[j]) = GroupKey(d, d.pulls[k])}

\* a choice of the Pull with the fewest read entries
KeptPull_fewest(pulls, group) ==
    CHOOSE k \in group :
        \A j \in group :
            \/ Len(pulls[k].read) < Len(pulls[j].read)
            \/ Len(pulls[k].read) = Len(pulls[j].read) /\ k <= j

\* "sorted(pulls, key=lambda x: (-read_count(x), str(x.id)))[0]"
KeptPull(pulls, group) ==
    CHOOSE k \in group :
        \A j \in group :
            \/ Len(pulls[k].read) > Len(pulls[j].read)
            \/ Len(pulls[k].read) = Len(pulls[j].read) /\ k <= j

\* keep_set: the reads of the kept Pull and of the Pulls to delete
MergedReads(pulls, group) == UNION {Range(pulls[j].read) : j \in group}

\* what the loop over the groups leaves of the group of Pull k: the kept
\* Pull with the merged reads and its owner set
DedupedPull(d, k) ==
    LET group == GroupOf(d, k)
        keep == d.pulls[k]
        keep_set == MergedReads(d.pulls, group)
    IN [keep EXCEPT
           !.read = IF Cardinality(group) > 1 /\ @ /= ListOfSet(keep_set)
                    THEN ListOfSet(keep_set) ELSE @,
           !.owner_id = OwnerOf(d, keep)]

\* the Pulls table after Command.handle
DedupedPulls(d) ==
    LET kept == {k \in DOMAIN d.pulls : k = KeptPull(d.pulls, GroupOf(d, k))}
    IN [k \in kept |-> DedupedPull(d, k)]

\* "merged += len(set(p.read or []) - keep_set)": the reads the kept Pulls
\* gained
MergedCount(d) ==
    LET kept == {k \in DOMAIN d.pulls : k = KeptPull(d.pulls, GroupOf(d, k))}
        gain(k) == Cardinality(MergedReads(d.pulls, GroupOf(d, k))
                                   \ Range(d.pulls[k].read))
        RECURSIVE sum(_)
        sum(S) == IF S = {} THEN 0
                  ELSE LET k == CHOOSE x \in S : TRUE
                       IN gain(k) + sum(S \ {k})
    IN sum(kept)

\* python manage.py dedupe_pulls; before is the table the command read
DedupePulls ==
    /\ db' = [db EXCEPT !.pulls = DedupedPulls(db)]
    /\ run' = [op |-> "dedupe_pulls", pc |-> "idle", before |-> db.pulls,
               removed |-> Cardinality(DOMAIN db.pulls)
                               - Cardinality(DOMAIN DedupedPulls(db)),
               merged |-> MergedCount(db)]
    /\ AppOnly

\* backfill_owner of migration 0017
BackfillOwner(d) ==
    [d EXCEPT !.pulls = [k \in DOMAIN d.pulls |->
                            [d.pulls[k] EXCEPT !.owner_id =
                                                   OwnerOf(d, d.pulls[k])]]]

\* migration 0017: backfill_owner, then its own dedupe_pulls over the
\* Pulls that have an owner
Migrate0017 ==
    /\ db' = [db EXCEPT !.pulls = DedupedPulls(BackfillOwner(db))]
    /\ run' = [op |-> "dedupe_pulls", pc |-> "idle", before |-> db.pulls,
               removed |-> 0, merged |-> 0]
    /\ AppOnly

\* the read arrays of the Pulls that are created
ReadLists == {<<>>, <<1>>, <<3>>}

\* Pulls are created before migration 0018, so that (owner, series_id) is
\* not yet unique: without owner before 0017, with the requesting user as
\* owner after it
CreateAnyPull ==
    \E user \in Users, id \in PullIds, pull_list \in Users,
       series_id \in RequestedVolumeIds, read \in ReadLists,
       schema \in {"0016", "0017"} :
        /\ schema = "0016" => pull_list = user
        /\ CreatePull(user, id, pull_list, series_id, read, schema)

NextDedupe ==
    \/ CreateAnyPull
    \/ DedupePulls
    \/ Migrate0017

SpecDedupe == InitMUPulls /\ [][NextDedupe]_vars

\* the Pulls of a table that make up the group of an owner and a series,
\* the owner of a Pull without owner being the owner of its pull list
GroupBefore(owner, series_id) ==
    {j \in DOMAIN run.before :
        /\ run.before[j].series_id = series_id
        /\ (IF run.before[j].owner_id /= None THEN run.before[j].owner_id
            ELSE db.pull_lists[run.before[j].pull_list].owner) = owner}

\* C30: after dedupe_pulls there is at most one Pull per owner and series;
\* it is a Pull of the group that had the most read entries of the group,
\* and its read set is the union of the read sets of the group
C30_DedupeKeepsOneWithAllReads ==
    run.op = "dedupe_pulls"
        => /\ \A a, b \in DOMAIN db.pulls :
                  (/\ db.pulls[a].owner_id = db.pulls[b].owner_id
                   /\ db.pulls[a].series_id = db.pulls[b].series_id)
                      => a = b
           /\ \A owner \in Users, series_id \in VolumeIds :
                  LET group == GroupBefore(owner, series_id)
                      left == {k \in DOMAIN db.pulls :
                                  /\ db.pulls[k].owner_id = owner
                                  /\ db.pulls[k].series_id = series_id}
                  IN group /= {}
                         => /\ Cardinality(left) = 1
                            /\ left \subseteq group
                            /\ \A k \in left, j \in group :
                                   /\ Len(run.before[k].read)
                                          >= Len(run.before[j].read)
                                   /\ Range(run.before[j].read)
                                          \subseteq Range(db.pulls[k].read)
                            /\ \A k \in left :
                                   Range(db.pulls[k].read) \subseteq
                                       UNION {Range(run.before[j].read) :
                                                 j \in group}

\* two Pulls of one owner and series were merged, one of them without
\* owner: the kept one had one read entry, as had the other, and now holds
\* the reads of both
C30_Witness ==
    /\ run.op = "dedupe_pulls"
    /\ Cardinality(DOMAIN run.before) = 2
    /\ Cardinality(DOMAIN db.pulls) = 1
    /\ \E k \in DOMAIN db.pulls :
           /\ Len(run.before[k].read) = 1
           /\ Range(db.pulls[k].read) = {1, 3}
           /\ \E j \in DOMAIN run.before : run.before[j].owner_id = None

\* ------------------------------------------------------------------------
\* Page caps of volume ingestion and range priming (SpecPaging)
\* ------------------------------------------------------------------------
\* what the remote source answers for volume 1: a volume of three issues
\* and one with more issues than the page cap can fetch
PagingPayloads ==
    { [name |-> "Saga", start_year |-> 2012, issue_count |-> 3,
       publisher |-> [id |-> 10, name |-> "Image"]],
      [name |-> "Saga", start_year |-> 2012,
       issue_count |-> MaxPagesPerVolume * PageSize + 1,
       publisher |-> [id |-> 10, name |-> "Image"]] }

PagingCatalogs == {CatalogC}

InitPaging ==
    /\ cv = TRUE
    /\ now = 0
    /\ volumes = <<>>
    /\ publishers = <<>>
    /\ issues = <<>>
    /\ catalog \in PagingCatalogs
    /\ prime = IdlePrime
    /\ summary = NoSummary
    /\ invocations = 0
    /\ weeks = <<>>
    /\ wreq = IdleWeekRequest
    /\ errors = NoErrors
    /\ parked = NoParked
    /\ asked = {}
    /\ run = IdleRun
    /\ db = EmptyDb
    /\ ret = Result("init", None, FALSE, FALSE, NoRecord, "none", NoRecord,
                    0, 0, 0)

DoGetPagedVolume ==
    \E volume_id \in RequestedVolumeIds, force_refresh \in BOOLEAN,
       payload \in PagingPayloads :
        GetVolume(volume_id, force_refresh, "ok", payload)

\* get_volume_issues for the requested volume
DoGetPagedIssues ==
    \E volume_id \in RequestedVolumeIds, fail_page \in 0 .. MaxPagesPerVolume :
        GetVolumeIssues(volume_id, fail_page)

\* a turn of the page loop with the clock before or past the budget
DoPrimePageAtEdge ==
    \E elapsed \in {0, BudgetSeconds + 1}, outcome \in AdapterOutcomes :
        PrimePage(elapsed, outcome)

DoPrimeDayEndAtEdge ==
    \E elapsed \in {0, BudgetSeconds + 1} : PrimeDayEnd(elapsed)

\* the three service calls at one instant; the paged ones are counted
NextPaging ==
    \/ DoGetPagedVolume /\ UNCHANGED <<invocations, weeks, wreq, errors, app>>
    \/ Invoke /\ DoGetPagedIssues /\ UNCHANGED <<weeks, wreq, errors, app>>
    \/ /\ Invoke /\ DoPrimeStart(PrimeStartPages, PrimeResumeDates)
       /\ UNCHANGED <<weeks, wreq, errors, app>>
    \/ DoPrimePageAtEdge
       /\ UNCHANGED <<invocations, weeks, wreq, errors, app>>
    \/ DoPrimeDayEndAtEdge
       /\ UNCHANGED <<invocations, weeks, wreq, errors, app>>
    \/ PrimeReturn /\ UNCHANGED <<invocations, weeks, wreq, errors, app>>

SpecPaging == InitPaging /\ [][NextPaging]_vars

\* the requests of a history that were made for date d
RequestsOn(requests, d) == {i \in DOMAIN requests : requests[i][1] = d}

\* the days of the range an invocation was called with
DaysOfRange(h) == h.end_date - h.start_date + 1

PagesWithinCap(h) ==
    /\ \A i \in DOMAIN h.requests : h.requests[i][2] \in 1 .. MaxPagesPerDay
    /\ \A i \in DOMAIN h.requests :
          Cardinality(RequestsOn(h.requests, h.requests[i][1]))
              <= MaxPagesPerDay
    /\ Len(h.requests) <= MaxPagesPerDay * DaysOfRange(h)

\* C31: one get_volume_issues invocation makes at most 3 page requests; one
\* priming invocation makes at most 3 page requests per day, all with page
\* numbers within 1..3, and over an N-day range at most 3N requests.
C31_PagingBounded ==
    /\ IsGetVolumeIssues => ret.calls <= MaxPagesPerVolume
    /\ prime.pc /= "idle" => PagesWithinCap(prime)
    /\ (summary.returned /\ summary.configured) => PagesWithinCap(summary)

\* both caps cut a fetch short: three pages of a day that has more, and
\* three pages of a volume that has more issues
C31_Witness ==
    /\ IsGetVolumeIssues
    /\ ret.calls = MaxPagesPerVolume
    /\ ret.outcome = "ok"
    /\ Len(ret.items) < volumes[ret.volume_id].count_of_issues
    /\ summary.returned
    /\ summary.complete
    /\ Cardinality(RequestsOn(summary.requests, 1)) = MaxPagesPerDay
    /\ Len(summary.requests) = MaxPagesPerDay + NumDays - 1

\* ------------------------------------------------------------------------
\* Failures of get_volume_issues
\* ------------------------------------------------------------------------
\* a step that is a get_volume_issues call which fetched no list
IssuesCallWithoutList ==
    /\ ret' /= ret
    /\ ret'.op = "get_volume_issues"
    /\ ret'.outcome /= "ok"

\* C32: a get_volume_issues call in which a page request fails returns the
\* empty list and leaves the cached issues as they were, also when earlier
\* pages were fetched; a call for a volume that is not cached returns the
\* empty list without a remote call or a write.
C32_FailedFetchKeepsIssues ==
    [][IssuesCallWithoutList =>
          /\ issues' = issues
          /\ volumes' = volumes
          /\ ret'.returned = "list"
          /\ ret'.items = <<>>
          /\ ret'.writes = 0
          /\ ~ret'.existed => ret'.calls = 0]_vars

\* the third page request failed after two pages were fetched
C32_Witness ==
    /\ IsGetVolumeIssues
    /\ ret.outcome = "raised"
    /\ ret.calls = MaxPagesPerVolume
    /\ ret.items = <<>>
    /\ issues = <<>>

\* ------------------------------------------------------------------------
\* The service without an API key (SpecUnconfigured)
\* ------------------------------------------------------------------------
\* ComicVineService.__init__: every command and request builds its own
\* service object, which has a client only when the setting holds a key
Configure(key_set) ==
    /\ prime.pc = "idle"
    /\ cv' = key_set
    /\ UNCHANGED <<now, volumes, publishers, issues, catalog, prime, summary,
                   ret>>

\* the three service calls at one instant, on a site whose key comes and
\* goes; the range is primed from its start
NextUnconfigured ==
    \/ DoGetPagedVolume /\ UNCHANGED <<invocations, weeks, wreq, errors, app>>
    \/ Invoke /\ DoGetPagedIssues /\ UNCHANGED <<weeks, wreq, errors, app>>
    \/ /\ Invoke /\ DoPrimeStart({1}, {None})
       /\ UNCHANGED <<weeks, wreq, errors, app>>
    \/ DoPrimePageAtEdge
       /\ UNCHANGED <<invocations, weeks, wreq, errors, app>>
    \/ DoPrimeDayEndAtEdge
       /\ UNCHANGED <<invocations, weeks, wreq, errors, app>>
    \/ PrimeReturn /\ UNCHANGED <<invocations, weeks, wreq, errors, app>>
    \/ /\ \E key_set \in BOOLEAN : Configure(key_set)
       /\ UNCHANGED <<invocations, weeks, wreq, errors, app>>

SpecUnconfigured == InitPaging /\ [][NextUnconfigured]_vars

\* the answer of a call made without a client
UnconfiguredAnswer(r, s) ==
    /\ r.calls = 0
    /\ r.writes = 0
    /\ r.op = "get_volume" => r.returned = "none"
    /\ r.op = "get_volume_issues" => r.returned = "list" /\ r.items = <<>>
    /\ r.op = "prime" =>
          /\ s.returned
          /\ s.fetched = 0
          /\ s.created = 0
          /\ s.updated = 0
          /\ s.requests = <<>>

\* C33: without an API key get_volume, get_volume_issues and
\* prime_issues_for_date_range make no remote call and write nothing; they
\* return nothing, the empty list and a summary with zero fetched.
C33_UnconfiguredDoesNothing ==
    [][(~cv /\ ret' /= ret) =>
          /\ UNCHANGED <<volumes, publishers, issues>>
          /\ prime' = IdlePrime
          /\ UnconfiguredAnswer(ret', summary')]_vars

\* a fresh cached volume is asked for after the key was removed
C33_Witness ==
    /\ ~cv
    /\ ret.op = "get_volume"
    /\ ret.existed
    /\ ~ret.before.api_fetch_failed
    /\ ~ret.force_refresh
    /\ ret.returned = "none"
    /\ issues /= <<>>

\* ------------------------------------------------------------------------
\* The week rows of two weeks (SpecWeekKeys)
\* ------------------------------------------------------------------------
\* the days of two consecutive weeks
TwoWeeks == 0 .. 2 * NumDays - 1

\* date.isoweekday(): Monday = 1, with date 0 a Monday
IsoWeekday(date) == (date % NumDays) + 1

\* history: the date the last request was made for
WeekRun(target_date) ==
    [op |-> "week", pc |-> "idle", target_date |-> target_date]

\* a request for any day of the two weeks
DoDatedWeekRequest ==
    \E target_date \in TwoWeeks, prime_param \in BOOLEAN,
       service_ok \in BOOLEAN :
        /\ WeekRequest(target_date, prime_param, service_ok, DefaultLimit)
        /\ run' = WeekRun(target_date)

\* at most MaxInvocations requests and the priming calls they make, at one
\* instant
NextWeekKeys ==
    \/ /\ Invoke /\ DoDatedWeekRequest
       /\ UNCHANGED <<errors, parked, asked, db>>
    \/ DoPrimePageAtEdge
       /\ UNCHANGED <<invocations, weeks, wreq, errors, app>>
    \/ DoPrimeDayEndAtEdge
       /\ UNCHANGED <<invocations, weeks, wreq, errors, app>>
    \/ WeekPrimeReturn /\ UNCHANGED <<invocations, errors, app>>

SpecWeekKeys == InitPrime /\ [][NextWeekKeys]_vars

\* C34: every week row is keyed by a Monday; the range a request primes and
\* serves is that Monday to the Sunday six days later, and a request for
\* any date of the week uses the row of that week.
C34_WeekRowsKeyedByMonday ==
    /\ \A w \in DOMAIN weeks :
          /\ weeks[w].week_start = w
          /\ IsoWeekday(w) = 1
    /\ run.op = "week" =>
          /\ IsoWeekday(wreq.week_start) = 1
          /\ wreq.end_date = wreq.week_start + (NumDays - 1)
          /\ run.target_date \in wreq.week_start .. wreq.end_date
          /\ wreq.before.week_start = wreq.week_start
          /\ prime.pc /= "idle" =>
                /\ prime.start_date = wreq.week_start
                /\ prime.end_date = wreq.end_date
          /\ (wreq.pc = "idle" /\ wreq.attempted) =>
                wreq.week_start \in DOMAIN weeks

\* a request for the Sunday of the second week finds the row of that week,
\* which an earlier request has made and primed from its Monday on
C34_Witness ==
    /\ run.op = "week"
    /\ run.target_date = 2 * NumDays - 1
    /\ wreq.pc = "idle"
    /\ wreq.existed
    /\ wreq.week_start = NumDays
    /\ DOMAIN weeks = {NumDays}
    /\ Len(summary.requests) > 0
    /\ summary.requests[1][1] < run.target_date

\* ------------------------------------------------------------------------
\* The checkpoint of a week row
\* ------------------------------------------------------------------------
\* C35: whenever next_date_to_prime of a week row is set, it is a date of
\* that row's week: week_start <= next_date_to_prime <= week_start + 6 days.
C35_CheckpointWithinWeek ==
    \A w \in DOMAIN weeks :
        weeks[w].next_date_to_prime /= None =>
            /\ weeks[w].week_start <= weeks[w].next_date_to_prime
            /\ weeks[w].next_date_to_prime
                   <= weeks[w].week_start + (NumDays - 1)

CheckpointOf(row) ==
    IF row.next_date_to_prime = None THEN <<row.week_start, 1>>
    ELSE <<row.next_date_to_prime, row.current_day_page>>

\* checkpoint a is at or after checkpoint b, by date and then by page
NotBefore(a, b) == a[1] > b[1] \/ (a[1] = b[1] /\ a[2] >= b[2])

\* C38: from one request for a week to the next, the checkpoint
\* (next_date_to_prime, current_day_page) of the week's row never moves
\* backwards until the week is complete, also when the request raised or
\* made no progress; a row without a date counts as Monday, page 1.
C38_CheckpointNeverMovesBack ==
    [][\A w \in DOMAIN weeks' :
          IF w \in DOMAIN weeks
          THEN (~weeks[w].priming_complete /\ ~weeks'[w].priming_complete)
                  => NotBefore(CheckpointOf(weeks'[w]), CheckpointOf(weeks[w]))
          ELSE NotBefore(CheckpointOf(weeks'[w]), <<w, 1>>)]_vars

\* a suspended week is resumed and suspended again further on
C38_Witness ==
    /\ wreq.pc = "idle"
    /\ wreq.outcome = "suspended"
    /\ wreq.existed
    /\ wreq.before.next_date_to_prime /= None
    /\ ~NotBefore(CheckpointOf(wreq.before),
                  CheckpointOf(weeks[wreq.week_start]))

\* ------------------------------------------------------------------------
\* Failure metadata of the cached rows (SpecFailures)
\* ------------------------------------------------------------------------
\* what the remote source answers for volume 1
SagaPayload ==
    [name |-> "Saga", start_year |-> 2012, issue_count |-> 3,
     publisher |-> [id |-> 10, name |-> "Image"]]

\* get_volume for the requested volume, answered or failed by the adapter
DoGetSagaVolume ==
    \E volume_id \in RequestedVolumeIds, force_refresh \in BOOLEAN,
       outcome \in AdapterOutcomes :
        GetVolume(volume_id, force_refresh, outcome, SagaPayload)

\* a request for the week that asks for priming
DoPrimingWeekRequest ==
    \E service_ok \in BOOLEAN :
        WeekRequest(0, TRUE, service_ok, DefaultLimit)

\* at most MaxInvocations requests for the week with the priming calls
\* they make, and get_volume calls, at one instant
NextFailures ==
    \/ Invoke /\ DoPrimingWeekRequest /\ UNCHANGED <<errors, app>>
    \/ DoPrimePageAtEdge
       /\ UNCHANGED <<invocations, weeks, wreq, errors, app>>
    \/ DoPrimeDayEndAtEdge
       /\ UNCHANGED <<invocations, weeks, wreq, errors, app>>
    \/ WeekPrimeReturn /\ UNCHANGED <<invocations, errors, app>>
    \/ DoGetSagaVolume /\ UNCHANGED <<invocations, weeks, wreq, errors, app>>

SpecFailures == InitPrime /\ [][NextFailures]_vars

\* the three failure fields of a cached row agree
FailureFieldsAgree(row) ==
    /\ ~row.api_fetch_failed =>
          /\ row.api_fetch_failure_count = 0
          /\ row.api_last_failure = None
    /\ row.api_fetch_failed =>
          /\ row.api_fetch_failure_count >= 1
          /\ row.api_last_failure /= None

\* C36: on every volume, issue and week row, api_fetch_failed = false goes
\* with failure count 0 and no last-failure time, and api_fetch_failed =
\* true with a failure count of at least 1 and a last-failure time.
C36_FailureMetadataConsistent ==
    /\ \A v \in DOMAIN volumes : FailureFieldsAgree(volumes[v])
    /\ \A i \in DOMAIN issues : FailureFieldsAgree(issues[i])
    /\ \A w \in DOMAIN weeks : FailureFieldsAgree(weeks[w])

\* a volume row marked failed, next to a week row that was marked failed
\* and then reset by a priming call that stored issues
C36_Witness ==
    /\ \E v \in DOMAIN volumes : volumes[v].api_fetch_failed
    /\ wreq.pc = "idle"
    /\ wreq.existed
    /\ wreq.before.api_fetch_failed
    /\ wreq.week_start \in DOMAIN weeks
    /\ ~weeks[wreq.week_start].api_fetch_failed
    /\ issues /= <<>>

\* ------------------------------------------------------------------------
\* Days abandoned on an adapter error (SpecWeekErrors)
\* ------------------------------------------------------------------------
\* the failed requests of a log that are not for date d
NotOn(failed, d) == SelectSeq(failed, LAMBDA r : r[1] /= d)

\* history: the log keeps the failed requests whose day has not been
\* requested again since
LogAbandoned(elapsed, outcome) ==
    errors' = IF prime.page <= MaxPagesPerDay /\ ~OverBudget(elapsed)
              THEN [errors EXCEPT
                       !.failed =
                           IF outcome /= "ok"
                           THEN Append(NotOn(@, prime.cur),
                                       <<prime.cur, prime.page>>)
                           ELSE NotOn(@, prime.cur)]
              ELSE errors

DoPrimePageAbandoning ==
    \E elapsed \in {0, BudgetSeconds + 1}, outcome \in AdapterOutcomes :
        PrimePage(elapsed, outcome) /\ LogAbandoned(elapsed, outcome)

\* at most MaxInvocations requests for the week that ask for priming, and
\* the priming calls they make, at one instant
NextWeekErrors ==
    \/ Invoke /\ DoPrimingWeekRequest /\ UNCHANGED <<errors, app>>
    \/ DoPrimePageAbandoning /\ UNCHANGED <<invocations, weeks, wreq, app>>
    \/ DoPrimeDayEndAtEdge
       /\ UNCHANGED <<invocations, weeks, wreq, errors, app>>
    \/ WeekPrimeReturn /\ UNCHANGED <<invocations, errors, app>>

SpecWeekErrors == InitPrime /\ [][NextWeekErrors]_vars

\* the days of the week of row w that were abandoned on an adapter error
\* and not requested again
AbandonedDays(w) ==
    {d \in w .. w + (NumDays - 1) :
        \E i \in DOMAIN errors.failed : errors.failed[i][1] = d}

\* C39: a week row has priming_complete = true only when every day of the
\* week whose page request failed with an adapter error has been requested
\* again since: no week is marked complete while one of its days is
\* abandoned on an error.
C39_NoCompleteWithAbandonedDay ==
    \A w \in DOMAIN weeks :
        weeks[w].priming_complete => AbandonedDays(w) = {}

\* ------------------------------------------------------------------------
\* Two mark_read requests at a time (SpecMarkRace)
\* ------------------------------------------------------------------------
\* a step of the workers of the pulls app leaves the ComicVine cache alone
WorkersOnly ==
    UNCHANGED <<cv, now, volumes, publishers, issues, catalog, prime,
                summary, ret, invocations, weeks, wreq, errors>>

\* PullViewSet.mark_read up to "current = set(pull.read or [])": the Pull is
\* loaded and its read list copied; get_object answers 404 for a Pull of
\* another user's pull list
MarkReadLoad(user, id, issue_id) ==
    LET found == id \in DOMAIN db.pulls /\ ListOwner(db, db.pulls[id]) = user
    IN /\ run.pc = "idle"
       /\ run' = IF found
                 THEN [op |-> "mark_read", pc |-> "loaded", user |-> user,
                       found |-> TRUE, id |-> id, issue_id |-> issue_id,
                       current |-> Range(db.pulls[id].read)]
                 ELSE [op |-> "mark_read", pc |-> "idle", user |-> user,
                       found |-> FALSE]
       /\ UNCHANGED <<parked, asked, db>>
       /\ WorkersOnly

\* the rest of mark_read: "if issue_id not in current: current.add(issue_id);
\* pull.read = list(current); pull.save(update_fields=["read"])", and the
\* answer 200.  history: asked keeps the marks that were answered
MarkReadSave ==
    /\ run.pc = "loaded"
    /\ db' = IF run.issue_id \notin run.current
             THEN [db EXCEPT !.pulls[run.id].read =
                                 ListOfSet(run.current \cup {run.issue_id})]
             ELSE db
    /\ run' = [op |-> "mark_read", pc |-> "idle", user |-> run.user,
               found |-> TRUE]
    /\ asked' = asked \cup {<<run.id, run.issue_id>>}
    /\ UNCHANGED parked
    /\ WorkersOnly

\* the server lets its other worker run: the request of the running worker
\* is parked and the parked one goes on; the tables are shared
SwitchWorker ==
    /\ parked' = run
    /\ run' = parked
    /\ UNCHANGED <<asked, db>>
    /\ WorkersOnly

\* user 1 has one Pull with nothing read; no request is in flight
InitMarkRace ==
    /\ cv = TRUE
    /\ now = 0
    /\ volumes = <<>>
    /\ publishers = <<>>
    /\ issues = <<>>
    /\ catalog = CatalogD
    /\ prime = IdlePrime
    /\ summary = NoSummary
    /\ invocations = 0
    /\ weeks = <<>>
    /\ wreq = IdleWeekRequest
    /\ errors = NoErrors
    /\ parked = IdleRun
    /\ asked = {}
    /\ run = IdleRun
    /\ db = PullsFor({1, 2})
    /\ ret = Result("init", None, FALSE, FALSE, NoRecord, "none", NoRecord,
                    0, 0, 0)

NextMarkRace ==
    \/ \E user \in Users, id \in PullIds, issue_id \in ReadIds :
          MarkReadLoad(user, id, issue_id)
    \/ MarkReadSave
    \/ SwitchWorker

SpecMarkRace == InitMarkRace /\ [][NextMarkRace]_vars

\* C40: mark_read loses no update, however the read and write steps of two
\* requests for the same Pull interleave: every issue id whose mark_read
\* request was answered is in the read list of its Pull.
C40_NoLostMark ==
    \A m \in asked : m[2] \in Range(db.pulls[m[1]].read)

====
